---- MODULE Spec2Model ----
(***************************************************************************)
(* A model of the agent control loop of cua-agent: CUAAgent.executeTask    *)
(* (src/src/core/CUAAgent.ts), the tool dispatcher ToolExecutor.execute    *)
(* (src/unnamed/part_001) and the model-service boundary LLMClient.chat    *)
(* (src/src/utils/logger.ts).                                              *)
(*                                                                         *)
(* executeTask is an async function: it runs synchronously from one await  *)
(* to the next.  Each action below is one such synchronous stretch: the    *)
(* call of executeTask up to the first llm.chat, the continuation after    *)
(* llm.chat settles, the continuation after toolExecutor.execute settles.  *)
(* Of the wall-clock fields only the timestamp of a screenshot is          *)
(* modelled; the timestamps and durations of the action history are not.   *)
(***************************************************************************)
EXTENDS Integers, Sequences, FiniteSets, TLC

\* ------------------------------------------------------------------ bounds
\* config.agent.max_actions_per_task ranges over 1..MaxActionsBound
MaxActionsBound == 2
\* a computer call is started only while the page has had fewer input events
MaxPageEvents == 3
\* tab ids are allocated up to this one
MaxTabId == 5
\* the documents searched have up to this many elements
MaxFindElems == 22
\* config.agent.max_retries ranges over 1..MaxRetriesBound
MaxRetriesBound == 2
\* responses without tool_use whose stop_reason is not end_turn, per task
MaxIdleTurns == 1
\* a further executeTask is started only while action_history is this short
MaxPriorHistory == 1
\* the tab ids given out while the operations of a session are called
MaxSessionTabs == 2
\* the driver input a page has received when the last operation is called on it
MaxSessionEvents == 1

\* the longest conversation a task can build within the bounds above
MsgWindow == 1 + 2 * MaxActionsBound + MaxIdleTurns

\* executeTask calls of one agent (calls 1 and 2 may overlap in time)
CallIds == {1, 2}

\* task descriptions handed to executeTask
Tasks == {"taskA", "taskB"}

VARIABLES
    config,     \* CUAAgent.config.agent: max_actions_per_task, max_retries
    state,      \* CUAAgent.state: AgentState
    messages,   \* CUAAgent.messages: the conversation
    call,       \* per executeTask call: its position and local variables
    browser,    \* BrowserController: browser, pages, nextTabId
    page,       \* the live document of tab 1 and the input it has received
    batch       \* the ToolExecutor.executeComputer call in progress

vars == <<config, state, messages, call, browser, page, batch>>

\* what the agent loop owns, and what the browser session owns
agentVars == <<config, state, messages, call>>

sessionVars == <<browser, page, batch>>

\* ------------------------------------------------------------ content blocks
TextBlock(s) == [type |-> "text", text |-> s]

ToolUseBlock(name) == [type |-> "tool_use", id |-> <<0, 0>>, name |-> name, input |-> [tab_id |-> 1]]

ImageBlock == [type |-> "image", media_type |-> "image/png"]

ChatResponse(content, stop) == [content |-> content, stop_reason |-> stop]

\* The replies of the model service that are explored: the blocks of one
\* response and its stop_reason.
Responses ==
    { ChatResponse(<<ToolUseBlock("computer")>>, "tool_use"),
      ChatResponse(<<TextBlock("a"), ToolUseBlock("computer"), ToolUseBlock("read_page")>>, "tool_use"),
      ChatResponse(<<ToolUseBlock("bogus")>>, "tool_use"),
      ChatResponse(<<TextBlock("a"), ToolUseBlock("read_page")>>, "end_turn"),
      ChatResponse(<<TextBlock("a")>>, "end_turn"),
      ChatResponse(<<>>, "end_turn"),
      ChatResponse(<<TextBlock("a"), TextBlock("")>>, "end_turn"),
      ChatResponse(<<TextBlock("a")>>, "max_tokens") }

\* the replies of a model that may also stop on a stop sequence
LiveResponses == Responses \cup {ChatResponse(<<>>, "stop_sequence")}

\* the model service gives every tool_use block its own id
StampIds(content, turn) ==
    [k \in 1..Len(content) |->
        IF content[k].type = "tool_use" THEN [content[k] EXCEPT !.id = <<turn, k>>]
        ELSE content[k]]

HasToolUse(content) == \E k \in 1..Len(content) : content[k].type = "tool_use"

\* a reply that neither requests a tool nor says the turn has ended
IsIdle(r) == ~HasToolUse(r.content) /\ r.stop_reason # "end_turn"

IdleTurns(msgs) ==
    Cardinality({p \in 1..Len(msgs) : msgs[p].role = "assistant" /\ ~HasToolUse(msgs[p].content)})

\* ------------------------------------------------------------ tool dispatch
ToolNames == {"computer", "read_page", "find", "get_page_text", "form_input", "navigate", "tabs_create", "tabs_context"}

ScreenshotTools == {"computer", "navigate"}

StringTools == {"read_page", "get_page_text"}

\* what the dispatched operation resolves to when it succeeds
ToolResultOf(name) ==
    IF name \in ScreenshotTools THEN [kind |-> "screenshot", tool |-> name]
    ELSE IF name \in StringTools THEN [kind |-> "string", tool |-> name]
    ELSE IF name = "form_input" THEN [kind |-> "undefined", tool |-> name]
    ELSE [kind |-> "object", tool |-> name]

\* the errors the browser session can raise under each tool (an error message
\* is a sequence of strings: the pieces its template joins)
BrowserErrors(name) ==
    CASE name = "computer" -> {<<"Tab not found">>, <<"Element with ref not found">>}
      [] name = "form_input" -> {<<"Tab not found">>, <<"Element with ref not found">>}
      [] name = "navigate" -> {<<"Tab not found">>, <<"Navigation failed">>}
      [] name = "tabs_create" -> {<<"Browser not initialized">>}
      [] name = "tabs_context" -> {}
      [] OTHER -> {<<"Tab not found">>}

Resolved(result) == [ok |-> TRUE, result |-> result]

Rejected(message) == [ok |-> FALSE, message |-> message]

\* ToolExecutor.execute: the ways the returned promise can settle
execute(toolName, input) ==
    IF toolName \in ToolNames
    THEN {Resolved(ToolResultOf(toolName))} \cup {Rejected(e) : e \in BrowserErrors(toolName)}
    ELSE {Rejected(<<"Unknown tool: ", toolName>>)}

\* ------------------------------------------------------------- agent state
\* CUAAgent.constructor: the AgentState of a new agent
NewAgentState(maxRetries) ==
    [current_tab_id |-> 1,
     last_screenshot |-> [kind |-> "none"],
     action_history |-> <<>>,
     error_count |-> 0,
     max_retries |-> maxRetries]

NoResponse == ChatResponse(<<>>, "none")

NoResult == [kind |-> "none"]

\* an executeTask call that has not been made: no locals yet
IdleCall ==
    [pc |-> "idle",
     task |-> "",
     actionCount |-> 0,
     response |-> NoResponse,
     block |-> 0,
     assistantContent |-> <<>>,
     toolResults |-> <<>>,
     finalText |-> "",
     result |-> NoResult]

\* the three strings executeTask returns
FinalText(text) == [kind |-> "final", text |-> text]

BudgetExceeded(maxActions) == [kind |-> "budget", limit |-> maxActions]

RetriesExceededMessage(maxRetries, errorMessage) ==
    [kind |-> "retries", retries |-> maxRetries, error |-> errorMessage]

\* ---------------------------------------------------------- executeTask
\* (variant: the loop condition lets one more turn through)
BudgetLeftInclusive(actionCount, maxActions) == actionCount <= maxActions

\* while (actionCount < maxActions)
BudgetLeft(actionCount, maxActions) == actionCount < maxActions

\* finalText = block.text || ''
TextOf(b) == IF b.text = "" THEN "" ELSE b.text

\* return finalText || 'Task completed'
FinalAnswer(finalText) == IF finalText = "" THEN "Task completed" ELSE finalText

\* (variant: the completion check looks at stop_reason alone)
IsDoneByStopReason(response, toolResults) == response.stop_reason = "end_turn"

\* response.stop_reason === 'end_turn' && toolResults.length === 0
IsDone(response, toolResults) ==
    response.stop_reason = "end_turn" /\ Len(toolResults) = 0

isScreenshotResult(result) == result.kind = "screenshot"

\* a tool_result's content: a string (the pieces it is joined from), a list
\* of blocks, or undefined
StringContent(pieces) == [form |-> "string", text |-> pieces]

BlocksContent(blocks) == [form |-> "blocks", blocks |-> blocks]

\* the content of the tool_result of a successful call
ResultContent(result) ==
    IF isScreenshotResult(result)
    THEN BlocksContent(<<ImageBlock, TextBlock(<<"Screenshot captured at ", result.tool>>)>>)
    ELSE IF result.kind = "string" THEN StringContent(<<"text of ", result.tool>>)
    ELSE IF result.kind = "undefined" THEN [form |-> "undefined"]
    ELSE StringContent(<<"JSON of ", result.tool>>)

\* (variant: the error text is passed on without the "Error: " prefix)
ErrorContentBare(errorMessage) == StringContent(errorMessage)

\* `Error: ${errorMessage}`
ErrorContent(errorMessage) == StringContent(<<"Error: ">> \o errorMessage)

ToolResultBlock(id, content) ==
    [type |-> "tool_result", tool_use_id |-> id, content |-> content]

\* this.state.error_count >= this.state.max_retries
RetriesExhausted(st) == st.error_count >= st.max_retries

\* (variant: a failed call is answered but leaves no history entry)
AppendFailureUnlogged(history, b, errorMessage) == history

\* this.state.action_history.push({tool, input, error}) of the catch branch
AppendFailure(history, b, errorMessage) ==
    Append(history, [tool |-> b.name, input |-> b.input, error |-> errorMessage])

\* (variant: a success leaves the consecutive-error counter as it is)
OnToolSuccessKeepsCount(l, st, b, result) ==
    [l |-> [l EXCEPT !.toolResults = Append(@, ToolResultBlock(b.id, ResultContent(result)))],
     st |-> [st EXCEPT
               !.last_screenshot = IF isScreenshotResult(result) THEN result ELSE @,
               !.action_history = Append(@, [tool |-> b.name, input |-> b.input, output |-> result])]]

\* the try branch after toolExecutor.execute resolved with `result`
OnToolSuccess(l, st, b, result) ==
    [l |-> [l EXCEPT !.toolResults = Append(@, ToolResultBlock(b.id, ResultContent(result)))],
     st |-> [st EXCEPT
               !.last_screenshot = IF isScreenshotResult(result) THEN result ELSE @,
               !.action_history = Append(@, [tool |-> b.name, input |-> b.input, output |-> result]),
               !.error_count = 0]]

\* (variant: a failed call is logged and counted but answered by no
\* tool_result)
OnToolFailureUnanswered(l, st, b, errorMessage) ==
    LET st1 == [st EXCEPT
                  !.error_count = @ + 1,
                  !.action_history = Append(@, [tool |-> b.name, input |-> b.input, error |-> errorMessage])]
    IN  [l |-> IF RetriesExhausted(st1)
               THEN [l EXCEPT !.pc = "done",
                              !.result = RetriesExceededMessage(st1.max_retries, errorMessage)]
               ELSE l,
         st |-> st1]

\* the catch branch after toolExecutor.execute rejected with `errorMessage`
OnToolFailure(l, st, b, errorMessage) ==
    LET st1 == [st EXCEPT
                  !.error_count = @ + 1,
                  !.action_history = AppendFailure(@, b, errorMessage)]
        l1 == [l EXCEPT !.toolResults = Append(@, ToolResultBlock(b.id, ErrorContent(errorMessage)))]
    IN  [l |-> IF RetriesExhausted(st1)
               THEN [l1 EXCEPT !.pc = "done",
                               !.result = RetriesExceededMessage(st1.max_retries, errorMessage)]
               ELSE l1,
         st |-> st1]

RECURSIVE ProcessBlocksFirstOnly(_, _)
\* (variant: only the first tool_use block of a response is dispatched)
ProcessBlocksFirstOnly(l, k) ==
    IF k > Len(l.response.content)
    THEN [l EXCEPT !.block = k]
    ELSE LET b == l.response.content[k]
             l1 == [l EXCEPT !.assistantContent = Append(@, b)]
         IN  IF b.type = "text"
             THEN ProcessBlocksFirstOnly([l1 EXCEPT !.finalText = TextOf(b)], k + 1)
             ELSE IF b.type = "tool_use" /\ Len(l.toolResults) = 0
             THEN [l1 EXCEPT !.actionCount = @ + 1, !.block = k, !.pc = "tool"]
             ELSE IF b.type = "tool_use"
             THEN ProcessBlocksFirstOnly(l1, k + 1)
             ELSE ProcessBlocksFirstOnly(l1, k + 1)

\* for (const block of response.content), from block k up to the next await
\* (a tool_use block) or to the end of the loop
RECURSIVE ProcessBlocks(_, _)
ProcessBlocks(l, k) ==
    IF k > Len(l.response.content)
    THEN [l EXCEPT !.block = k]
    ELSE LET b == l.response.content[k]
             l1 == [l EXCEPT !.assistantContent = Append(@, b)]
         IN  IF b.type = "text"
             THEN ProcessBlocks([l1 EXCEPT !.finalText = TextOf(b)], k + 1)
             ELSE IF b.type = "tool_use"
             THEN [l1 EXCEPT !.actionCount = @ + 1, !.block = k, !.pc = "tool"]
             ELSE ProcessBlocks(l1, k + 1)

\* the head of the while loop: ask the model again, or give up on the budget
LoopHead(l, msgs) ==
    IF BudgetLeft(l.actionCount, config.max_actions_per_task)
    THEN [l |-> [l EXCEPT !.pc = "chat"], msgs |-> msgs]
    ELSE [l |-> [l EXCEPT !.pc = "done", !.result = BudgetExceeded(config.max_actions_per_task)],
          msgs |-> msgs]

\* the user message that carries the tool results of a turn
ToolResultsMessage(toolResults) == [role |-> "user", content |-> toolResults]

\* after the for loop: assistant message, completion check, tool results
EndOfTurn(l, msgs) ==
    LET m1 == Append(msgs, [role |-> "assistant", content |-> l.assistantContent])
    IN  IF IsDone(l.response, l.toolResults)
        THEN [l |-> [l EXCEPT !.pc = "done", !.result = FinalText(FinalAnswer(l.finalText))],
              msgs |-> m1]
        ELSE LoopHead(l, IF Len(l.toolResults) > 0
                         THEN Append(m1, ToolResultsMessage(l.toolResults))
                         ELSE m1)

\* run on from block k until the call awaits again or returns
RunFrom(l, msgs, k) ==
    LET l1 == ProcessBlocks([l EXCEPT !.pc = "loop"], k)
    IN  IF l1.pc = "tool" THEN [l |-> l1, msgs |-> msgs] ELSE EndOfTurn(l1, msgs)

\* the rejection a failed model-service call carries
ChatError == <<"model service failure">>

Rejection(errorMessage) == [kind |-> "rejected", error |-> errorMessage]

\* (variant: a failed model call is counted as a tool error)
OnChatFailureCounted(l, st) ==
    [l |-> [l EXCEPT !.pc = "threw", !.result = Rejection(ChatError)],
     st |-> [st EXCEPT !.error_count = @ + 1]]

\* llm.chat rejected: nothing in executeTask catches it
OnChatFailure(l, st) ==
    [l |-> [l EXCEPT !.pc = "threw", !.result = Rejection(ChatError)], st |-> st]

\* the conversation as far as the model records it: only a run that is let
\* go on without end (live) ever outgrows the window
Recorded(msgs, live) ==
    IF live /\ Len(msgs) > MsgWindow THEN SubSeq(msgs, 1, MsgWindow) ELSE msgs

\* --------------------------------------------------------- browser session
\* text is a sequence of characters
Lower(c) == CASE c = "G" -> "g" [] c = "O" -> "o" [] c = "X" -> "x" [] OTHER -> c

\* String.prototype.toLowerCase
toLowerCase(str) == [k \in 1..Len(str) |-> Lower(str[k])]

\* String.prototype.includes
includes(str, sub) ==
    \E k \in 0..(Len(str) - Len(sub)) : SubSeq(str, k + 1, k + Len(sub)) = sub

\* the value of the data-ref attribute: ref_<n>, found_<n>, or no attribute
NoRef == [kind |-> "none", n |-> 0]

RefId(n) == [kind |-> "ref", n |-> n]

FoundId(n) == [kind |-> "found", n |-> n]

\* the attributes findElements looks at
NoAttrs == [ariaLabel |-> <<>>, placeholder |-> <<>>, title |-> <<>>, id |-> <<>>, className |-> <<>>]

\* the body of a document is its element 1
Body == 1

\* A document: element e has parent[e] (0 for the body) and comes before its
\* later siblings in the order of the element numbers.
Document(parent, text, attrs, interactive, hidden) ==
    [parent |-> parent, text |-> text, attrs |-> attrs,
     interactive |-> interactive, hidden |-> hidden]

\* the document the agent loop's session shows
PlainDocument ==
    Document(<<0, 1>>, <<<<>>, <<"G", "o">>>>, <<NoAttrs, NoAttrs>>, {2}, {})

NoOutcome == [op |-> "none"]

\* a tab's page as loaded: all elements of the document but the last are in
\* it, no element carries a data-ref, no element has the focus, nothing has
\* been typed, and the driver has sent no input (events)
PageOf(doc) ==
    [doc |-> doc,
     present |-> 1..(IF Len(doc.parent) > 1 THEN Len(doc.parent) - 1 ELSE 1),
     ref |-> [e \in 1..Len(doc.parent) |-> NoRef],
     focus |-> 0,
     value |-> [e \in 1..Len(doc.parent) |-> <<>>],
     events |-> <<>>,
     last |-> NoOutcome]

\* A URL is the string the code handles, as the sequence of its characters.
\* String.prototype.startsWith
startsWith(str, prefix) ==
    Len(str) >= Len(prefix) /\ SubSeq(str, 1, Len(prefix)) = prefix

Http == <<"h", "t", "t", "p", ":", "/", "/">>

Https == <<"h", "t", "t", "p", "s", ":", "/", "/">>

Back == <<"b", "a", "c", "k">>

Forward == <<"f", "o", "r", "w", "a", "r", "d">>

ExampleCom == <<"e", "x", "a", "m", "p", "l", "e", ".", "c", "o", "m">>

AboutBlank == <<"a", "b", "o", "u", "t", ":", "b", "l", "a", "n", "k">>

\* a page of the driver: the URL it shows and its session history
BlankPage == [url |-> AboutBlank, back |-> <<>>, forward |-> <<>>]

\* page.goto(url): a new entry of the session history
goto(tab, url) == [url |-> url, back |-> Append(tab.back, tab.url), forward |-> <<>>]

\* page.goBack(): one entry back, nowhere if there is none
goBack(tab) ==
    IF tab.back = <<>> THEN tab
    ELSE [url |-> tab.back[Len(tab.back)], back |-> SubSeq(tab.back, 1, Len(tab.back) - 1),
          forward |-> <<tab.url>> \o tab.forward]

\* page.goForward()
goForward(tab) ==
    IF tab.forward = <<>> THEN tab
    ELSE [url |-> tab.forward[1], back |-> Append(tab.back, tab.url),
          forward |-> SubSeq(tab.forward, 2, Len(tab.forward))]

\* BrowserController as constructed: browser = null, no pages, nextTabId = 1
\* (last: what the last call on the session returned to its caller)
NewBrowser == [launched |-> FALSE, pages |-> <<>>, nextTabId |-> 1, last |-> NoOutcome]

\* initialize, after puppeteer.launch gave a browser with `opened` pages:
\* if (pages.length > 0) this.pages.set(this.nextTabId++, pages[0])
initialize(br, opened) ==
    [br EXCEPT !.launched = TRUE,
               !.pages = IF opened > 0 THEN br.nextTabId :> BlankPage @@ @ ELSE @,
               !.nextTabId = IF opened > 0 THEN @ + 1 ELSE @,
               !.last = [op |-> "initialize", ok |-> TRUE, opened |-> opened]]

\* BrowserController after a successful initialize: tab 1 is the first page
InitializedBrowser == [initialize(NewBrowser, 1) EXCEPT !.last = NoOutcome]

\* (variant: closing the browser starts the tab ids over)
closeResetsIds(br) ==
    IF br.launched
    THEN [br EXCEPT !.launched = FALSE, !.pages = <<>>, !.nextTabId = 1,
                    !.last = [op |-> "close", ok |-> TRUE]]
    ELSE [br EXCEPT !.last = [op |-> "close", ok |-> TRUE]]

\* close: if (this.browser) { browser.close(); this.browser = null; this.pages.clear() }
close(br) ==
    IF br.launched
    THEN [br EXCEPT !.launched = FALSE, !.pages = <<>>, !.last = [op |-> "close", ok |-> TRUE]]
    ELSE [br EXCEPT !.last = [op |-> "close", ok |-> TRUE]]

\* (variant: the protocol is added to every target)
NormalizeUrlAlways(url) == Https \o url

\* navigate, "Add protocol if missing": the URL handed to page.goto
NormalizeUrl(url) ==
    IF ~startsWith(url, Http) /\ ~startsWith(url, Https) THEN Https \o url ELSE url

\* navigate: the one driver call it makes for a target
DriverCall(url) ==
    IF url = Back THEN [op |-> "goBack"]
    ELSE IF url = Forward THEN [op |-> "goForward"]
    ELSE [op |-> "goto", url |-> NormalizeUrl(url)]

\* what the driver call does to the page of the tab
Navigated(tab, driverCall) ==
    CASE driverCall.op = "goBack" -> goBack(tab)
      [] driverCall.op = "goForward" -> goForward(tab)
      [] OTHER -> goto(tab, driverCall.url)

\* createTab(): no url given (an empty string is no url either: if (url))
NoUrl == <<>>

\* (variant: the new tab gets the number of open tabs plus one)
createTabBySize(br, url, driver) ==
    IF ~br.launched
    THEN [br EXCEPT !.last = [op |-> "createTab", ok |-> FALSE, error |-> "BrowserNotInitialized"]]
    ELSE IF driver = "newPageFails"
    THEN [br EXCEPT !.last = [op |-> "createTab", ok |-> FALSE, error |-> "DriverFailure"]]
    ELSE LET tabId == Cardinality(DOMAIN br.pages) + 1
             br1 == [br EXCEPT !.nextTabId = @ + 1,
                               !.pages = [t \in DOMAIN @ \cup {tabId} |->
                                             IF t = tabId THEN BlankPage ELSE @[t]]]
         IN  IF url # NoUrl /\ driver = "navigationFails"
             THEN [br1 EXCEPT !.last = [op |-> "createTab", ok |-> FALSE, error |-> "NavigationFailure"]]
             ELSE IF url # NoUrl
             THEN [br1 EXCEPT !.pages[tabId] = Navigated(@, DriverCall(url)),
                              !.last = [op |-> "createTab", ok |-> TRUE, given |-> url,
                                        tab |-> [id |-> tabId,
                                                 url |-> Navigated(BlankPage, DriverCall(url)).url]]]
             ELSE [br1 EXCEPT !.last = [op |-> "createTab", ok |-> TRUE, given |-> url,
                                        tab |-> [id |-> tabId, url |-> AboutBlank]]]

\* createTab(url?), given how the driver calls it makes turn out: "ok",
\* "newPageFails" or "navigationFails"; `given` is the url it was called with
createTab(br, url, driver) ==
    IF ~br.launched
    THEN [br EXCEPT !.last = [op |-> "createTab", ok |-> FALSE, error |-> "BrowserNotInitialized"]]
    ELSE IF driver = "newPageFails"
    THEN [br EXCEPT !.last = [op |-> "createTab", ok |-> FALSE, error |-> "DriverFailure"]]
    ELSE LET tabId == br.nextTabId
             br1 == [br EXCEPT !.nextTabId = @ + 1, !.pages = tabId :> BlankPage @@ @]
         IN  IF url # NoUrl /\ driver = "navigationFails"
             THEN [br1 EXCEPT !.last = [op |-> "createTab", ok |-> FALSE, error |-> "NavigationFailure"]]
             ELSE IF url # NoUrl
             THEN [br1 EXCEPT !.pages[tabId] = Navigated(@, DriverCall(url)),
                              !.last = [op |-> "createTab", ok |-> TRUE, given |-> url,
                                        tab |-> [id |-> tabId,
                                                 url |-> Navigated(BlankPage, DriverCall(url)).url]]]
             ELSE [br1 EXCEPT !.last = [op |-> "createTab", ok |-> TRUE, given |-> url,
                                        tab |-> [id |-> tabId, url |-> AboutBlank]]]

\* getTabsContext: the tabs of the map in the order they were added, which
\* is the order of their ids
RECURSIVE TabsFrom(_, _)
TabsFrom(br, ids) ==
    IF ids = {} THEN <<>>
    ELSE LET id == CHOOSE t \in ids : \A u \in ids : t <= u
         IN  <<[id |-> id, url |-> br.pages[id].url, active |-> FALSE]>>
               \o TabsFrom(br, ids \ {id})

getTabsContext(br) == TabsFrom(br, DOMAIN br.pages)

\* no computer call is being executed
NoBatch == [pc |-> "idle"]

\* this.pages.get(tabId), the check of getPage
HasPage(br, tabId) == tabId \in DOMAIN br.pages

\* `Tab ${tabId} not found. Available tabs: [...]`
TabNotFound(br, tabId) ==
    [error |-> "TabNotFound", tab |-> tabId, available |-> DOMAIN br.pages]

\* el.children, in document order
Children(pg, e) ==
    LET kids == {c \in pg.present : pg.doc.parent[c] = e}
    IN  SelectSeq([k \in 1..Len(pg.doc.parent) |-> k], LAMBDA c : c \in kids)

RECURSIVE PreOrderFrom(_, _)
\* the elements of the subtrees on the stack, in document order
PreOrderFrom(pg, stack) ==
    IF stack = <<>> THEN <<>>
    ELSE <<Head(stack)>> \o PreOrderFrom(pg, Children(pg, Head(stack)) \o Tail(stack))

PreOrder(pg) == PreOrderFrom(pg, <<Body>>)

Subtree(pg, e) == PreOrderFrom(pg, <<e>>)

RECURSIVE TextFrom(_, _)
\* el.textContent: the text of the element and of its descendants
TextFrom(pg, elems) ==
    IF elems = <<>> THEN <<>> ELSE pg.doc.text[Head(elems)] \o TextFrom(pg, Tail(elems))

textContent(pg, e) == TextFrom(pg, Subtree(pg, e))

\* document.querySelector(`[data-ref="${refId}"]`): the first element in
\* document order that carries the ref id, 0 when there is none
querySelector(pg, refId) ==
    LET hits == SelectSeq(PreOrder(pg), LAMBDA e : pg.ref[e] = refId)
    IN  IF refId = NoRef \/ hits = <<>> THEN 0 ELSE Head(hits)

\* getAccessibleName: aria-label, title, else the text content
getAccessibleName(pg, e) ==
    IF pg.doc.attrs[e].ariaLabel # <<>> THEN pg.doc.attrs[e].ariaLabel
    ELSE IF pg.doc.attrs[e].title # <<>> THEN pg.doc.attrs[e].title
    ELSE textContent(pg, e)

\* (variant: every element counts as interactive)
isInteractiveAlways(pg, e) == TRUE

isInteractive(pg, e) == e \in pg.doc.interactive

\* style.display === 'none' || style.visibility === 'hidden'
IsHidden(pg, e) == e \in pg.doc.hidden

\* one line of the tree readPage returns
TreeLine(pg, e, depth, refId) ==
    [indent |-> depth, ref |-> refId, element |-> e, name |-> getAccessibleName(pg, e)]

\* (variant: every visited element is given the next id of the call)
RefForAlways(carried, refCounter) == RefId(refCounter)

\* let refId = el.getAttribute('data-ref'); if (!refId) refId = `ref_${refCounter++}`
RefFor(carried, refCounter) == IF carried = NoRef THEN RefId(refCounter) ELSE carried

WithChildren(pg, e, depth, stack) ==
    [k \in 1..Len(Children(pg, e)) |-> <<Children(pg, e)[k], depth>>] \o stack

RECURSIVE buildTree(_, _, _, _)
\* buildTree over the elements on the stack, each with its depth; w holds
\* the data-ref attributes, refCounter and the lines produced so far
buildTree(pg, opts, w, stack) ==
    IF stack = <<>> THEN w
    ELSE LET e == Head(stack)[1]
             currentDepth == Head(stack)[2]
             rest == Tail(stack)
         IN  IF currentDepth > opts.maxDepth \/ IsHidden(pg, e)
             THEN buildTree(pg, opts, w, rest)
             ELSE IF opts.filterType = "interactive" /\ ~isInteractive(pg, e)
             THEN buildTree(pg, opts, w, WithChildren(pg, e, currentDepth, rest))
             ELSE LET refId == RefFor(w.ref[e], w.refCounter)
                      w1 == [ref |-> [w.ref EXCEPT ![e] = refId],
                             refCounter |-> IF w.ref[e] = NoRef THEN w.refCounter + 1 ELSE w.refCounter,
                             lines |-> Append(w.lines, TreeLine(pg, e, currentDepth, refId))]
                  IN  buildTree(pg, opts, w1, WithChildren(pg, e, currentDepth + 1, rest))

\* the element readPage starts at
StartElement(pg, startRefId) ==
    IF querySelector(pg, startRefId) # 0 THEN querySelector(pg, startRefId) ELSE Body

ReadPageOptions(depth, filter, refId) ==
    [maxDepth |-> depth, filterType |-> filter, startRefId |-> refId]

\* BrowserController.readPage: the page it leaves and what it returns
readPage(br, pg, tabId, depth, filter, refId) ==
    IF ~HasPage(br, tabId)
    THEN [pg EXCEPT !.last = [op |-> "readPage", ok |-> FALSE, error |-> TabNotFound(br, tabId),
                              args |-> ReadPageOptions(depth, filter, refId)]]
    ELSE LET opts == ReadPageOptions(depth, filter, refId)
             w == buildTree(pg, opts, [ref |-> pg.ref, refCounter |-> 0, lines |-> <<>>],
                            <<<<StartElement(pg, refId), 0>>>>)
         IN  [pg EXCEPT !.ref = w.ref,
                        !.last = [op |-> "readPage", ok |-> TRUE, tree |-> w.lines, args |-> opts,
                                  root |-> StartElement(pg, refId)]]

\* the longest result list findElements returns
MaxFindResults == 20

\* (variant: the text is compared as it is written, the query in lower case)
matchesQueryCaseSensitive(pg, e, query) ==
    LET a == pg.doc.attrs[e]
    IN  \/ includes(textContent(pg, e), query)
        \/ includes(toLowerCase(a.ariaLabel), query)
        \/ includes(toLowerCase(a.placeholder), query)
        \/ includes(toLowerCase(a.title), query)
        \/ includes(toLowerCase(a.id), query)
        \/ includes(toLowerCase(a.className), query)

\* matchesQuery, for the query already in lower case
matchesQuery(pg, e, query) ==
    LET a == pg.doc.attrs[e]
    IN  \/ includes(toLowerCase(textContent(pg, e)), query)
        \/ includes(toLowerCase(a.ariaLabel), query)
        \/ includes(toLowerCase(a.placeholder), query)
        \/ includes(toLowerCase(a.title), query)
        \/ includes(toLowerCase(a.id), query)
        \/ includes(toLowerCase(a.className), query)

\* (variant: an element found is always given the id of its result index)
FoundRefForAlways(carried, resultCount) == FoundId(resultCount)

\* el.getAttribute('data-ref') || `found_${results.length}`
FoundRefFor(carried, resultCount) == IF carried = NoRef THEN FoundId(resultCount) ELSE carried

RECURSIVE traverse(_, _, _, _)
\* traverse over the elements on the stack; an element other than the first
\* is entered only while results.length < 20 (the break of its parent's loop)
traverse(pg, query, w, stack) ==
    IF stack = <<>> THEN w
    ELSE LET e == Head(stack)
             rest == Tail(stack)
         IN  IF e # w.root /\ Len(w.results) >= MaxFindResults
             THEN traverse(pg, query, w, rest)
             ELSE IF matchesQuery(pg, e, query)
             THEN LET refId == FoundRefFor(w.ref[e], Len(w.results))
                      w1 == [w EXCEPT !.ref[e] = refId,
                                      !.results = Append(@, [ref_id |-> refId, element |-> e])]
                  IN  traverse(pg, query, w1, Children(pg, e) \o rest)
             ELSE traverse(pg, query, w, Children(pg, e) \o rest)

\* results.slice(0, 20)
Slice(results, n) == SubSeq(results, 1, IF Len(results) < n THEN Len(results) ELSE n)

\* BrowserController.findElements: the page it leaves and what it returns
findElements(br, pg, tabId, searchQuery) ==
    IF ~HasPage(br, tabId)
    THEN [pg EXCEPT !.last = [op |-> "findElements", ok |-> FALSE, error |-> TabNotFound(br, tabId),
                              query |-> searchQuery]]
    ELSE LET w == traverse(pg, toLowerCase(searchQuery),
                           [ref |-> pg.ref, results |-> <<>>, root |-> Body], <<Body>>)
         IN  [pg EXCEPT !.ref = w.ref,
                        !.last = [op |-> "findElements", ok |-> TRUE,
                                  elements |-> Slice(w.results, MaxFindResults),
                                  query |-> searchQuery]]

\* ------------------------------------------------- input sent to the page
\* What the page does with the driver's input: a left click moves the focus
\* to the element clicked (to none if it takes no focus), typed text goes to
\* the element that has the focus; every input is kept in page.events.
Received(pg, event) == [pg EXCEPT !.events = Append(@, event)]

\* the element under a viewport coordinate (coordinates are known by the
\* element whose centre they are; 0 is a place with no element)
ElementAt(pg, coordinate) ==
    IF coordinate \in pg.present /\ ~IsHidden(pg, coordinate) THEN coordinate ELSE 0

\* page.mouse.click(x, y, {button, clickCount})
mouseClick(pg, coordinate, button, clickCount) ==
    LET target == ElementAt(pg, coordinate)
        pg1 == Received(pg, [op |-> "click", target |-> target, button |-> button,
                             clickCount |-> clickCount])
    IN  IF button = "left"
        THEN [pg1 EXCEPT !.focus = IF target # 0 /\ isInteractive(pg, target) THEN target ELSE 0]
        ELSE pg1

\* page.keyboard.type(text)
keyboardType(pg, text) ==
    LET pg1 == Received(pg, [op |-> "type", text |-> text, focus |-> pg.focus])
    IN  IF pg.focus # 0 THEN [pg1 EXCEPT !.value[pg.focus] = @ \o text] ELSE pg1

\* page.keyboard.press(key)
keyboardPress(pg, key) == Received(pg, [op |-> "press", key |-> key, focus |-> pg.focus])

\* page.keyboard.down(key)
keyboardDown(pg, key) == Received(pg, [op |-> "keydown", key |-> key])

\* page.keyboard.up(key)
keyboardUp(pg, key) == Received(pg, [op |-> "keyup", key |-> key])

\* the key names of the driver's keyboard layout that are used here; the
\* driver throws on any other (so on the empty name)
DriverKeys ==
    {"Enter", "Backspace", "Delete", "Tab", "Escape", "Space", "ArrowUp", "ArrowDown",
     "ArrowLeft", "ArrowRight", "Meta", "Control", "Alt", "Shift", "a", "A", "c"}

Done(pg) == [ok |-> TRUE, page |-> pg]

Failure(error) == [ok |-> FALSE, error |-> error]

\* BrowserController.click
click(br, pg, tabId, coordinate, button, clickCount) ==
    IF ~HasPage(br, tabId) THEN Failure(TabNotFound(br, tabId))
    ELSE Done(mouseClick(pg, coordinate, button, clickCount))

\* BrowserController.clickByRef
clickByRef(br, pg, tabId, refId, button) ==
    IF ~HasPage(br, tabId) THEN Failure(TabNotFound(br, tabId))
    ELSE IF querySelector(pg, refId) = 0
    THEN Failure([error |-> "ElementNotFound", ref |-> refId])
    ELSE IF IsHidden(pg, querySelector(pg, refId))
    THEN Failure([error |-> "NoBoundingBox", ref |-> refId])
    ELSE Done(mouseClick(pg, querySelector(pg, refId), button, 1))

\* (variant: the text is typed whatever tab is named)
typeUnchecked(br, pg, tabId, text) == Done(keyboardType(pg, text))

\* BrowserController.type
type(br, pg, tabId, text) ==
    IF ~HasPage(br, tabId) THEN Failure(TabNotFound(br, tabId)) ELSE Done(keyboardType(pg, text))

\* A key is the string the code handles, as the sequence of the names and
\* "+" signs it is written with: "Ctrl+Shift+a" is <<"Ctrl", "+", "Shift",
\* "+", "a">>.  The string between two "+" signs is one name, or empty.
NameOf(part) == IF part = <<>> THEN "" ELSE part[1]

\* str.toLowerCase() of a name
LowerName(name) ==
    CASE name \in {"Cmd", "CMD"} -> "cmd"
      [] name \in {"Meta", "META"} -> "meta"
      [] name \in {"Ctrl", "CTRL"} -> "ctrl"
      [] name \in {"Control", "CONTROL"} -> "control"
      [] name \in {"Alt", "ALT"} -> "alt"
      [] name \in {"Shift", "SHIFT"} -> "shift"
      [] name \in {"Return", "RETURN"} -> "return"
      [] name \in {"Enter", "ENTER"} -> "enter"
      [] name \in {"Escape", "ESCAPE"} -> "escape"
      [] name \in {"Esc", "ESC"} -> "esc"
      [] name \in {"Tab", "TAB"} -> "tab"
      [] name = "Space" -> "space"
      [] name = "Backspace" -> "backspace"
      [] name = "Delete" -> "delete"
      [] name = "A" -> "a"
      [] name = "C" -> "c"
      [] OTHER -> name

keyMap ==
    [return |-> "Enter", enter |-> "Enter", backspace |-> "Backspace", delete |-> "Delete",
     tab |-> "Tab", escape |-> "Escape", esc |-> "Escape", space |-> "Space",
     up |-> "ArrowUp", down |-> "ArrowDown", left |-> "ArrowLeft", right |-> "ArrowRight"]

\* BrowserController.normalizeKey: keyMap[key.toLowerCase()] || key
normalizeKey(key) ==
    IF LowerName(key) \in DOMAIN keyMap THEN keyMap[LowerName(key)] ELSE key

RECURSIVE split(_, _)
\* key.split('+'): the parts between the "+" signs, `part` being the one
\* that is being read
split(key, part) ==
    IF key = <<>> THEN <<part>>
    ELSE IF Head(key) = "+" THEN <<part>> \o split(Tail(key), <<>>)
    ELSE split(Tail(key), Append(part, Head(key)))

\* the driver's name of a modifier, "" for a part that is none
ModifierOf(mod) ==
    CASE mod \in {"cmd", "meta"} -> "Meta"
      [] mod \in {"ctrl", "control"} -> "Control"
      [] mod = "alt" -> "Alt"
      [] mod = "shift" -> "Shift"
      [] OTHER -> ""

RECURSIVE ModifiersOf(_)
\* the modifiers pushed for the parts before the last: parts that are no
\* modifier are left out
ModifiersOf(parts) ==
    IF Len(parts) <= 1 THEN <<>>
    ELSE (IF ModifierOf(LowerName(NameOf(Head(parts)))) = "" THEN <<>>
          ELSE <<ModifierOf(LowerName(NameOf(Head(parts))))>>) \o ModifiersOf(Tail(parts))

RECURSIVE AllDown(_, _)
\* for (const mod of modifiers) await page.keyboard.down(mod)
AllDown(pg, modifiers) ==
    IF modifiers = <<>> THEN pg ELSE AllDown(keyboardDown(pg, Head(modifiers)), Tail(modifiers))

RECURSIVE AllUpInOrder(_, _)
\* (variant: the modifiers are released in the order they were pressed)
AllUpInOrder(pg, modifiers) ==
    IF modifiers = <<>> THEN pg ELSE AllUpInOrder(keyboardUp(pg, Head(modifiers)), Tail(modifiers))

RECURSIVE AllUp(_, _)
\* for (const mod of modifiers.reverse()) await page.keyboard.up(mod)
AllUp(pg, modifiers) ==
    IF modifiers = <<>> THEN pg
    ELSE AllUp(keyboardUp(pg, modifiers[Len(modifiers)]), SubSeq(modifiers, 1, Len(modifiers) - 1))

\* what the rejected call of an operation leaves: the error, and the page
\* with the input that was sent before the failure
FailureOn(pg, error) == [ok |-> FALSE, error |-> error, page |-> pg]

\* BrowserController.pressKey
pressKey(br, pg, tabId, key) ==
    IF ~HasPage(br, tabId) THEN Failure(TabNotFound(br, tabId))
    ELSE IF \E i \in 1..Len(key) : key[i] = "+"
    THEN LET parts == split(key, <<>>)
             mainKey == NameOf(parts[Len(parts)])
             modifiers == ModifiersOf(parts)
             held == AllDown(pg, modifiers)
         IN  IF normalizeKey(mainKey) \notin DriverKeys
             THEN FailureOn(held, [error |-> "DriverFailure", key |-> normalizeKey(mainKey)])
             ELSE Done(AllUp(keyboardPress(held, normalizeKey(mainKey)), modifiers))
    ELSE IF normalizeKey(NameOf(key)) \notin DriverKeys
    THEN FailureOn(pg, [error |-> "DriverFailure", key |-> normalizeKey(NameOf(key))])
    ELSE Done(keyboardPress(pg, normalizeKey(NameOf(key))))

\* (variant: the requested duration is taken as it is)
MinOrFirst(a, b) == a

Min(a, b) == IF a < b THEN a ELSE b

\* the longest wait, in seconds
MaxWaitSeconds == 30

\* BrowserController.wait(duration): the timer is set to duration seconds
wait(pg, duration) == Done(Received(pg, [op |-> "wait", seconds |-> duration]))

\* BrowserController.scroll
scroll(br, pg, tabId, coordinate, params) ==
    IF ~HasPage(br, tabId) THEN Failure(TabNotFound(br, tabId))
    ELSE Done(Received(Received(pg, [op |-> "move", to |-> coordinate]),
                       [op |-> "wheel", direction |-> params.scroll_direction,
                        amount |-> params.scroll_amount]))

\* BrowserController.drag
drag(br, pg, tabId, start, end) ==
    IF ~HasPage(br, tabId) THEN Failure(TabNotFound(br, tabId))
    ELSE Done(Received(Received(Received(Received(pg,
                  [op |-> "move", to |-> start]), [op |-> "down"]),
                  [op |-> "move", to |-> end]), [op |-> "up"]))

\* the values Date.now() takes: milliseconds since 1970
Clock == {1, 2}

\* what a screenshot shows of the page
ViewOf(pg) == [focus |-> pg.focus, value |-> pg.value, present |-> pg.present]

\* (variant: the screenshot is one of the page as it was loaded)
screenshotOfLoadedPage(br, pg, tabId, now) ==
    IF ~HasPage(br, tabId) THEN Failure(TabNotFound(br, tabId))
    ELSE [ok |-> TRUE, page |-> pg,
          result |-> [kind |-> "screenshot", tool |-> "computer", shows |-> ViewOf(PageOf(pg.doc)),
                      timestamp |-> now]]

\* BrowserController.screenshot, Date.now() being `now`
screenshot(br, pg, tabId, now) ==
    IF ~HasPage(br, tabId) THEN Failure(TabNotFound(br, tabId))
    ELSE [ok |-> TRUE, page |-> pg,
          result |-> [kind |-> "screenshot", tool |-> "computer", shows |-> ViewOf(pg),
                      timestamp |-> now]]

\* the page after the driver has loaded a document into it: the elements
\* of the new document carry no data-ref, hold no focus and no typed text
\* (the input the driver has sent so far stays on record)
Loaded(pg) == [PageOf(pg.doc) EXCEPT !.events = pg.events, !.last = pg.last]

\* BrowserController.navigate, given how the driver call turns out ("ok" or
\* "navigationFails"): the session and the page it leaves
navigate(br, pg, tabId, url, driver) ==
    IF ~HasPage(br, tabId) THEN Failure(TabNotFound(br, tabId))
    ELSE IF driver = "navigationFails"
    THEN FailureOn(Received(pg, DriverCall(url)), [error |-> "NavigationFailure"])
    ELSE LET tab == Navigated(br.pages[tabId], DriverCall(url))
         IN  [ok |-> TRUE,
              browser |-> [br EXCEPT !.pages[tabId] = tab],
              page |-> Received(IF tab = br.pages[tabId] /\ DriverCall(url).op # "goto"
                                THEN pg ELSE Loaded(pg), DriverCall(url))]

RECURSIVE extractText(_, _)
\* getPageText, extractText: the text of the elements on the stack and of
\* their descendants, in document order, hidden elements left out
extractText(pg, stack) ==
    IF stack = <<>> THEN <<>>
    ELSE pg.doc.text[Head(stack)]
           \o extractText(pg, SelectSeq(Children(pg, Head(stack)), LAMBDA c : ~IsHidden(pg, c))
                                 \o Tail(stack))

\* BrowserController.getPageText (the documents have no article and no
\* main element: the content is the body)
getPageText(br, pg, tabId) ==
    IF ~HasPage(br, tabId) THEN Failure(TabNotFound(br, tabId))
    ELSE [ok |-> TRUE, page |-> pg,
          result |-> [kind |-> "string", tool |-> "get_page_text", text |-> extractText(pg, <<Body>>)]]

\* BrowserController.formInput, for an element that takes a text value
formInput(br, pg, tabId, refId, value) ==
    IF ~HasPage(br, tabId) THEN Failure(TabNotFound(br, tabId))
    ELSE IF querySelector(pg, refId) = 0
    THEN Failure([error |-> "ElementNotFound", ref |-> refId])
    ELSE Done(Received([pg EXCEPT !.value[querySelector(pg, refId)] = value],
                       [op |-> "input", target |-> querySelector(pg, refId), value |-> value]))

\* an Action: its kind and the optional fields that are set
NoCoordinate == 0 - 1

Action(kind) ==
    [action |-> kind, ref |-> NoRef, coordinate |-> NoCoordinate, text |-> <<>>,
     duration |-> 0, start_coordinate |-> NoCoordinate, end_coordinate |-> NoCoordinate,
     scroll_parameters |-> [scroll_direction |-> "down", scroll_amount |-> 0]]

ClickActions == {"left_click", "right_click", "double_click"}

\* ToolExecutor.executeAction
executeAction(br, pg, tabId, action) ==
    CASE action.action = "screenshot" -> Done(pg)
      [] action.action \in ClickActions ->
            IF action.ref # NoRef
            THEN clickByRef(br, pg, tabId, action.ref,
                            IF action.action = "right_click" THEN "right" ELSE "left")
            ELSE IF action.coordinate # NoCoordinate
            THEN click(br, pg, tabId, action.coordinate,
                       IF action.action = "right_click" THEN "right" ELSE "left",
                       IF action.action = "double_click" THEN 2 ELSE 1)
            ELSE Done(pg)
      [] action.action = "type" -> type(br, pg, tabId, action.text)
      [] action.action = "key" -> pressKey(br, pg, tabId, action.text)
      [] action.action = "wait" -> wait(pg, Min(action.duration, MaxWaitSeconds))
      [] action.action = "scroll" ->
            scroll(br, pg, tabId, action.coordinate, action.scroll_parameters)
      [] action.action = "left_click_drag" ->
            drag(br, pg, tabId, action.start_coordinate, action.end_coordinate)
      [] action.action = "scroll_to" -> clickByRef(br, pg, tabId, action.ref, "left")
      [] OTHER -> Done(pg)

\* a ComputerToolInput: tab_id, and the optional fields actions and action
NoAction == Action("none")

ComputerInput(tabId, actions, action) == [tab_id |-> tabId, actions |-> actions, action |-> action]

\* input.actions || (input.action ? [input.action] : []); actions is <<>>
\* when the field is not set
ActionsOf(input) ==
    IF input.actions # <<>> THEN input.actions
    ELSE IF input.action # NoAction THEN <<input.action>> ELSE <<>>

\* (variant: the actions are taken from the end of the list)
NextActionFromEnd(b) == Len(b.actions) - b.done

\* for (const action of actions): the action that is executed next
NextAction(b) == b.done + 1

\* executeComputer after `done` actions: it awaits the next action, or the
\* screenshot when there is none left
AwaitNext(b) == [b EXCEPT !.pc = IF b.done < Len(b.actions) THEN "acting" ELSE "shooting"]

\* executeComputer is called
StartBatch(input, pg) ==
    AwaitNext([pc |-> "acting", input |-> input, actions |-> ActionsOf(input), done |-> 0,
               before |-> pg, result |-> NoResult])

\* ------------------------------------------------------------------ actions
\* The agent loop below sees the browser session only through the ways a
\* tool call can settle (execute); the session itself stays as it is set up.
SessionAtRest ==
    /\ browser = InitializedBrowser
    /\ page = PageOf(PlainDocument)
    /\ batch = NoBatch

Init ==
    /\ config \in [max_actions_per_task : 1..MaxActionsBound, max_retries : 1..MaxRetriesBound]
    /\ state = NewAgentState(config.max_retries)
    /\ messages = <<>>
    /\ call = [c \in CallIds |-> IdleCall]
    /\ SessionAtRest

\* (variant: a new task is appended to the conversation of the last one)
StartTaskKeepsConversation(c, task) ==
    /\ call[c].pc \in {"idle", "done", "threw"}
    /\ Len(state.action_history) <= MaxPriorHistory
    /\ LET r == LoopHead([IdleCall EXCEPT !.task = task],
                         Append(messages, [role |-> "user", content |-> task]))
       IN  /\ call' = [call EXCEPT ![c] = r.l]
           /\ messages' = r.msgs
    /\ UNCHANGED <<config, state, sessionVars>>

\* executeTask(task) is called and runs up to its first llm.chat
StartTask(c, task) ==
    /\ call[c].pc \in {"idle", "done", "threw"}
    /\ Len(state.action_history) <= MaxPriorHistory
    /\ LET r == LoopHead([IdleCall EXCEPT !.task = task], <<[role |-> "user", content |-> task]>>)
       IN  /\ call' = [call EXCEPT ![c] = r.l]
           /\ messages' = r.msgs
    /\ UNCHANGED <<config, state, sessionVars>>

\* llm.chat resolved with `response`; the call runs on to its next await
ChatReturns(c, response, live) ==
    /\ call[c].pc = "chat"
    /\ LET stamped == [response EXCEPT !.content = StampIds(@, Len(messages))]
           l0 == [call[c] EXCEPT !.response = stamped,
                                 !.assistantContent = <<>>,
                                 !.toolResults = <<>>,
                                 !.finalText = ""]
           r == RunFrom(l0, messages, 1)
       IN  /\ call' = [call EXCEPT ![c] = r.l]
           /\ messages' = Recorded(r.msgs, live)
    /\ UNCHANGED <<config, state, sessionVars>>

\* llm.chat rejected (transport or authentication failure)
ChatFails(c) ==
    /\ call[c].pc = "chat"
    /\ LET r == OnChatFailure(call[c], state)
       IN  /\ call' = [call EXCEPT ![c] = r.l]
           /\ state' = r.st
    /\ UNCHANGED <<config, messages, sessionVars>>

\* toolExecutor.execute settled for the tool_use block the call awaits
ToolReturns(c, live) ==
    /\ call[c].pc = "tool"
    /\ LET b == call[c].response.content[call[c].block]
       IN  \E outcome \in execute(b.name, b.input) :
             LET h == IF outcome.ok
                      THEN OnToolSuccess(call[c], state, b, outcome.result)
                      ELSE OnToolFailure(call[c], state, b, outcome.message)
                 r == IF h.l.pc = "tool"
                      THEN RunFrom(h.l, messages, call[c].block + 1)
                      ELSE [l |-> h.l, msgs |-> messages]
             IN  /\ call' = [call EXCEPT ![c] = r.l]
                 /\ state' = h.st
                 /\ messages' = Recorded(r.msgs, live)
    /\ UNCHANGED <<config, sessionVars>>

\* the model answers; idle replies are explored up to MaxIdleTurns per task
ModelReplies(c) ==
    \E response \in Responses :
        /\ IsIdle(response) => IdleTurns(messages) < MaxIdleTurns
        /\ ChatReturns(c, response, FALSE)

Next ==
    \/ \E task \in Tasks : StartTask(1, task)
    \/ ModelReplies(1)
    \/ ChatFails(1)
    \/ ToolReturns(1, FALSE)

Spec == Init /\ [][Next]_vars

\* the same program with a model that may go on answering idly for ever
ModelRepliesLive(c) ==
    \E response \in LiveResponses : ChatReturns(c, response, TRUE)

NextLive ==
    \/ \E task \in Tasks : StartTask(1, task)
    \/ ModelRepliesLive(1)
    \/ ChatFails(1)
    \/ ToolReturns(1, TRUE)

\* Fairness: every awaited promise settles (the model service answers or
\* fails, the tool call resolves or rejects) and the event loop then runs the
\* continuation of executeTask, so a step that stays possible is taken.
SpecLive == Init /\ [][NextLive]_vars /\ WF_vars(NextLive)

\* ------------------------------------------- reading and searching a page
\* The agent is idle; readPage and findElements are called on the session,
\* and the page's own scripts may add elements in between.
AgentIdle ==
    /\ config = [max_actions_per_task |-> 1, max_retries |-> 1]
    /\ state = NewAgentState(1)
    /\ messages = <<>>
    /\ call = [c \in CallIds |-> IdleCall]

\* the shapes of the documents explored (element 4 may be added later)
Shapes == {<<0, 1, 2, 1>>, <<0, 1, 1, 2>>, <<0, 1, 2, 3>>}

\* the text and attributes of the documents explored
PageText == <<<<>>, <<"G", "o">>, <<"x">>, <<"g", "O">>>>

PageAttrs == <<NoAttrs, NoAttrs, [NoAttrs EXCEPT !.id = <<"G", "O">>], NoAttrs>>

\* which elements are interactive and which are hidden
PageStyles == {[interactive |-> {2, 4}, hidden |-> {}], [interactive |-> {3}, hidden |-> {2}]}

Documents ==
    {Document(parent, PageText, PageAttrs, style.interactive, style.hidden) :
        parent \in Shapes, style \in PageStyles}

TabIds == {1, 2}

DepthArgs == {0, 1, 15}

FilterArgs == {"all", "interactive"}

RefArgs == {NoRef, RefId(1), FoundId(0)}

Queries == {<<"G", "O">>, <<"x">>}

InitPage ==
    /\ AgentIdle
    /\ browser = InitializedBrowser
    /\ page \in {PageOf(doc) : doc \in Documents}
    /\ batch = NoBatch

ReadPage(tabId, depth, filter, refId) ==
    /\ page' = readPage(browser, page, tabId, depth, filter, refId)
    /\ UNCHANGED <<agentVars, browser, batch>>

FindElements(tabId, query) ==
    /\ page' = findElements(browser, page, tabId, query)
    /\ UNCHANGED <<agentVars, browser, batch>>

\* a script of the page appends an element to the document
DomAdds(e) ==
    /\ e \notin page.present
    /\ page.doc.parent[e] \in page.present
    /\ page' = [page EXCEPT !.present = @ \cup {e}, !.last = [op |-> "domAdds", element |-> e]]
    /\ UNCHANGED <<agentVars, browser, batch>>

NextPage ==
    \/ \E tabId \in TabIds, depth \in DepthArgs, filter \in FilterArgs, refId \in RefArgs :
          ReadPage(tabId, depth, filter, refId)
    \/ \E tabId \in TabIds, query \in Queries : FindElements(tabId, query)
    \/ \E e \in 1..Len(page.doc.parent) : DomAdds(e)

SpecPage == InitPage /\ [][NextPage]_vars

\* ------------------------------------------------ searching large documents
\* documents of n elements: a chain, a star, and a binary tree whose
\* element numbers are not in document order
FindShapes(n) ==
    { [e \in 1..n |-> e - 1],
      [e \in 1..n |-> IF e = 1 THEN 0 ELSE 1],
      [e \in 1..n |-> e \div 2] }

FindTexts(n) ==
    { [e \in 1..n |-> IF e = 13 THEN <<>> ELSE <<"G", "o">>],
      [e \in 1..n |-> IF e % 2 = 0 THEN <<"x">> ELSE <<>>],
      [e \in 1..n |-> IF e = n - 1 THEN <<"g", "O">> ELSE <<>>] }

FindAttrs(n) ==
    [e \in 1..n |-> IF e % 3 = 0 THEN [NoAttrs EXCEPT !.className = <<"X">>] ELSE NoAttrs]

FindDocuments ==
    UNION { {Document(parent, text, FindAttrs(n), {}, {}) :
                parent \in FindShapes(n), text \in FindTexts(n)} : n \in 1..MaxFindElems }

InitFind ==
    /\ AgentIdle
    /\ browser = InitializedBrowser
    /\ page \in {PageOf(doc) : doc \in FindDocuments}
    /\ batch = NoBatch

NextFind ==
    \/ \E tabId \in TabIds, query \in Queries : FindElements(tabId, query)
    \/ \E e \in 1..Len(page.doc.parent) : DomAdds(e)

SpecFind == InitFind /\ [][NextFind]_vars

\* ------------------------------------------------------- tabs of a session
\* initialize, createTab and close are called, one after the other, on a
\* BrowserController; the agent is idle.
InitTabs ==
    /\ AgentIdle
    /\ browser = NewBrowser
    /\ page = PageOf(PlainDocument)
    /\ batch = NoBatch

\* the URLs a tab is created with
UrlArgs == {NoUrl, ExampleCom, Https \o ExampleCom}

\* puppeteer.launch succeeds; the new browser has `opened` pages
Initialize(opened) ==
    /\ browser.nextTabId <= MaxTabId
    /\ browser' = initialize(browser, opened)
    /\ UNCHANGED <<agentVars, page, batch>>

CreateTab(url, driver) ==
    /\ browser.nextTabId <= MaxTabId
    /\ browser' = createTab(browser, url, driver)
    /\ UNCHANGED <<agentVars, page, batch>>

Close ==
    /\ browser' = close(browser)
    /\ UNCHANGED <<agentVars, page, batch>>

NextTabs ==
    \/ \E opened \in {0, 1} : Initialize(opened)
    \/ \E url \in UrlArgs, driver \in {"ok", "newPageFails", "navigationFails"} : CreateTab(url, driver)
    \/ Close

SpecTabs == InitTabs /\ [][NextTabs]_vars

\* ------------------------------------------------- batched computer calls
\* The computer tool is called on a session whose tab 1 shows a form; the
\* agent is idle.  body, two text inputs, a hidden input; a fifth element
\* may be added.
InputA == 2

InputB == 3

FormDocument ==
    Document(<<0, 1, 1, 1, 1>>, <<<<>>, <<>>, <<>>, <<"x">>, <<>>>>,
             <<NoAttrs, NoAttrs, NoAttrs, NoAttrs, NoAttrs>>, {2, 3, 4}, {4})

\* the form after read_page and find have tagged it: ref_0 the body, ref_1
\* and ref_2 the inputs, found_1 the hidden input
TaggedFormPage ==
    findElements(InitializedBrowser,
                 readPage(InitializedBrowser, PageOf(FormDocument), 1, 15, "all", NoRef),
                 1, <<"x">>)

Click(kind, ref, coordinate) == [Action(kind) EXCEPT !.ref = ref, !.coordinate = coordinate]

Type(text) == [Action("type") EXCEPT !.text = text]

Key(key) == [Action("key") EXCEPT !.text = key]

Wait(duration) == [Action("wait") EXCEPT !.duration = duration]

\* click(A), type("x"), key("Return")
ClickTypeReturn == <<Click("left_click", RefId(1), NoCoordinate), Type(<<"x">>), Key(<<"Return">>)>>

\* the durations a wait is requested with, in seconds
WaitArgs == {0, 1, 29, 30, 31, 40}

ComputerInputs ==
    { ComputerInput(1, ClickTypeReturn, NoAction),
      ComputerInput(1, <<Click("left_click", NoRef, InputB), Type(<<"x">>)>>, NoAction),
      ComputerInput(1, <<>>, Click("left_click", RefId(7), NoCoordinate)),
      ComputerInput(1, <<Type(<<"x">>), Click("left_click", FoundId(1), NoCoordinate), Type(<<"x">>)>>, NoAction),
      ComputerInput(2, <<Action("screenshot")>>, NoAction),
      ComputerInput(1, <<>>, NoAction),
      ComputerInput(1, <<Wait(40), [Action("scroll_to") EXCEPT !.ref = RefId(1)]>>, NoAction),
      ComputerInput(1, <<Click("double_click", NoRef, InputA), Click("right_click", RefId(2), NoCoordinate)>>, NoAction),
      ComputerInput(1, <<Click("left_click", NoRef, NoCoordinate),
                         [Action("scroll") EXCEPT !.coordinate = InputA,
                                                  !.scroll_parameters = [scroll_direction |-> "up", scroll_amount |-> 3]],
                         [Action("left_click_drag") EXCEPT !.start_coordinate = InputA,
                                                           !.end_coordinate = InputB]>>, NoAction),
      ComputerInput(1, <<Type(<<"x">>)>>, Click("left_click", NoRef, InputB)),
      ComputerInput(1, <<>>, Click("left_click", RefId(1), InputB)),
      ComputerInput(1, <<>>, Click("double_click", RefId(1), NoCoordinate)) }
      \cup {ComputerInput(1, <<>>, Wait(duration)) : duration \in WaitArgs}

InitComputer ==
    /\ AgentIdle
    /\ browser = InitializedBrowser
    /\ page = TaggedFormPage
    /\ batch = NoBatch

\* execute('computer', input) calls executeComputer, which runs up to its
\* first await
CallComputer(input) ==
    /\ batch.pc \in {"idle", "resolved", "rejected"}
    /\ Len(page.events) < MaxPageEvents
    /\ batch' = StartBatch(input, page)
    /\ UNCHANGED <<agentVars, browser, page>>

\* (variant: a failed action is passed over and the batch goes on)
ActionSettlesGoesOn ==
    /\ batch.pc = "acting"
    /\ LET outcome == executeAction(browser, page, batch.input.tab_id, batch.actions[NextAction(batch)])
       IN  /\ page' = IF "page" \in DOMAIN outcome THEN outcome.page ELSE page
           /\ batch' = AwaitNext([batch EXCEPT !.done = @ + 1])
    /\ UNCHANGED <<agentVars, browser>>

\* the executeAction that executeComputer awaits settles
ActionSettles ==
    /\ batch.pc = "acting"
    /\ LET outcome == executeAction(browser, page, batch.input.tab_id, batch.actions[NextAction(batch)])
       IN  IF outcome.ok
           THEN /\ page' = outcome.page
                /\ batch' = AwaitNext([batch EXCEPT !.done = @ + 1])
           ELSE /\ page' = IF "page" \in DOMAIN outcome THEN outcome.page ELSE page
                /\ batch' = [batch EXCEPT !.pc = "rejected", !.result = Failure(outcome.error)]
    /\ UNCHANGED <<agentVars, browser>>

\* the browser.screenshot that executeComputer returns settles
ScreenshotSettles ==
    /\ batch.pc = "shooting"
    /\ \E now \in Clock :
         LET outcome == screenshot(browser, page, batch.input.tab_id, now)
         IN  IF outcome.ok
             THEN batch' = [batch EXCEPT !.pc = "resolved", !.result = outcome.result]
             ELSE batch' = [batch EXCEPT !.pc = "rejected", !.result = outcome]
    /\ UNCHANGED <<agentVars, browser, page>>

NextComputer ==
    \/ \E input \in ComputerInputs : CallComputer(input)
    \/ ActionSettles
    \/ ScreenshotSettles

SpecComputer == InitComputer /\ [][NextComputer]_vars

\* ------------------------------------------------- calls on the session
\* The operations of BrowserController are called one after the other on a
\* controller as it is constructed: the browser may not be launched yet, or
\* be closed again, and the tab a call names may have no page.  All tabs
\* show the form.
TabScoped ==
    {"screenshot", "click", "clickByRef", "type", "pressKey", "scroll", "drag", "navigate",
     "readPage", "findElements", "getPageText", "formInput"}

\* one call of a tab-scoped operation, with arguments that suit the form
callOn(br, pg, op, tabId) ==
    CASE op = "screenshot" -> screenshot(br, pg, tabId, 1)
      [] op = "click" -> click(br, pg, tabId, InputA, "left", 1)
      [] op = "clickByRef" -> clickByRef(br, pg, tabId, RefId(1), "left")
      [] op = "type" -> type(br, pg, tabId, <<"x">>)
      [] op = "pressKey" -> pressKey(br, pg, tabId, <<"Ctrl", "+", "a">>)
      [] op = "scroll" ->
            scroll(br, pg, tabId, InputA, [scroll_direction |-> "down", scroll_amount |-> 3])
      [] op = "drag" -> drag(br, pg, tabId, InputA, InputB)
      [] op = "navigate" -> navigate(br, pg, tabId, ExampleCom, "ok")
      [] op = "readPage" ->
            LET read == readPage(br, pg, tabId, 15, "all", NoRef)
            IN  IF read.last.ok THEN Done(read) ELSE Failure(read.last.error)
      [] op = "findElements" ->
            LET found == findElements(br, pg, tabId, <<"x">>)
            IN  IF found.last.ok THEN Done(found) ELSE Failure(found.last.error)
      [] op = "getPageText" -> getPageText(br, pg, tabId)
      [] op = "formInput" -> formInput(br, pg, tabId, RefId(1), <<"x">>)

\* what the caller of an operation gets to see of it
Called(op, tabId, outcome) ==
    IF outcome.ok THEN [op |-> op, tab |-> tabId, ok |-> TRUE]
    ELSE [op |-> op, tab |-> tabId, ok |-> FALSE, error |-> outcome.error]

InitSession ==
    /\ AgentIdle
    /\ browser = NewBrowser
    /\ page = PageOf(FormDocument)
    /\ batch = NoBatch

\* a tab-scoped operation is called and settles
SessionCall(op, tabId) ==
    /\ Len(page.events) <= MaxSessionEvents
    /\ LET outcome == callOn(browser, page, op, tabId)
       IN  /\ page' = IF "page" \in DOMAIN outcome THEN outcome.page ELSE page
           /\ browser' = [(IF "browser" \in DOMAIN outcome THEN outcome.browser ELSE browser)
                             EXCEPT !.last = Called(op, tabId, outcome)]
    /\ UNCHANGED <<agentVars, batch>>

NextSession ==
    \/ browser.nextTabId <= MaxSessionTabs /\ Initialize(1)
    \/ browser.nextTabId <= MaxSessionTabs /\ CreateTab(NoUrl, "ok")
    \/ Close
    \/ \E op \in TabScoped, tabId \in TabIds : SessionCall(op, tabId)

SpecSession == InitSession /\ [][NextSession]_vars

\* ------------------------------------------------- tools on the session
\* ToolExecutor.execute is called with one tool after the other on a session
\* whose tab 1 shows the form; every call settles before the next is made.
\* the input of a tool call: the fields of the eight input types, each with
\* the value it has when the caller leaves it out
ToolInput ==
    [tab_id |-> 1, actions |-> <<>>, action |-> NoAction, depth |-> 15, filter |-> "all",
     ref_id |-> NoRef, query |-> <<>>, ref |-> NoRef, value |-> <<>>, url |-> NoUrl]

RECURSIVE RunActions(_, _, _, _)
\* for (const action of actions) await this.executeAction(input.tab_id, action)
RunActions(br, pg, tabId, actions) ==
    IF actions = <<>> THEN Done(pg)
    ELSE LET outcome == executeAction(br, pg, tabId, Head(actions))
         IN  IF outcome.ok THEN RunActions(br, outcome.page, tabId, Tail(actions)) ELSE outcome

\* ToolExecutor.executeComputer, from call to settlement
executeComputer(br, pg, input, now) ==
    LET ran == RunActions(br, pg, input.tab_id, ActionsOf(input))
    IN  IF ran.ok THEN screenshot(br, ran.page, input.tab_id, now) ELSE ran

\* ToolExecutor.executeReadPage
executeReadPage(br, pg, input) ==
    LET read == readPage(br, pg, input.tab_id, input.depth, input.filter, input.ref_id)
    IN  IF read.last.ok
        THEN [ok |-> TRUE, page |-> read,
              result |-> [kind |-> "string", tool |-> "read_page", tree |-> read.last.tree]]
        ELSE Failure(read.last.error)

\* ToolExecutor.executeFind
executeFind(br, pg, input) ==
    LET found == findElements(br, pg, input.tab_id, input.query)
    IN  IF found.last.ok
        THEN [ok |-> TRUE, page |-> found,
              result |-> [kind |-> "object", tool |-> "find", elements |-> found.last.elements,
                          total |-> Len(found.last.elements)]]
        ELSE Failure(found.last.error)

\* ToolExecutor.executeFormInput
executeFormInput(br, pg, input) ==
    LET filled == formInput(br, pg, input.tab_id, input.ref, input.value)
    IN  IF filled.ok
        THEN [ok |-> TRUE, page |-> filled.page, result |-> [kind |-> "undefined", tool |-> "form_input"]]
        ELSE filled

\* (variant: the screenshot is taken before the navigation)
executeNavigateShootsFirst(br, pg, input, driver, now) ==
    LET shot == screenshot(br, pg, input.tab_id, now)
        nav == navigate(br, pg, input.tab_id, input.url, driver)
    IN  IF ~nav.ok THEN nav
        ELSE [ok |-> TRUE, browser |-> nav.browser, page |-> nav.page,
              result |-> [shot.result EXCEPT !.tool = "navigate"]]

\* ToolExecutor.executeNavigate: navigate, then screenshot
executeNavigate(br, pg, input, driver, now) ==
    LET nav == navigate(br, pg, input.tab_id, input.url, driver)
    IN  IF ~nav.ok THEN nav
        ELSE LET shot == screenshot(nav.browser, nav.page, input.tab_id, now)
             IN  IF ~shot.ok THEN FailureOn(nav.page, shot.error)
                 ELSE [ok |-> TRUE, browser |-> nav.browser, page |-> nav.page,
                       result |-> [shot.result EXCEPT !.tool = "navigate"]]

\* ToolExecutor.executeTabsCreate
executeTabsCreate(br, pg, input, driver) ==
    LET created == createTab(br, input.url, driver)
    IN  IF created.last.ok
        THEN [ok |-> TRUE, browser |-> created, page |-> pg,
              result |-> [kind |-> "object", tool |-> "tabs_create", tab |-> created.last.tab]]
        ELSE [ok |-> FALSE, browser |-> created, error |-> [error |-> created.last.error]]

\* ToolExecutor.executeTabsContext: { tabs, current_tab_id: tabs[0]?.id || 1 }
executeTabsContext(br, pg) ==
    [ok |-> TRUE, page |-> pg,
     result |-> [kind |-> "object", tool |-> "tabs_context", tabs |-> getTabsContext(br),
                 current_tab_id |-> IF getTabsContext(br) # <<>> THEN getTabsContext(br)[1].id ELSE 1]]

\* ToolExecutor.execute on a session, from call to settlement: what the
\* call leaves of the session and resolves or rejects with
executeOn(br, pg, toolName, input, driver, now) ==
    CASE toolName = "computer" -> executeComputer(br, pg, input, now)
      [] toolName = "read_page" -> executeReadPage(br, pg, input)
      [] toolName = "find" -> executeFind(br, pg, input)
      [] toolName = "get_page_text" -> getPageText(br, pg, input.tab_id)
      [] toolName = "form_input" -> executeFormInput(br, pg, input)
      [] toolName = "navigate" -> executeNavigate(br, pg, input, driver, now)
      [] toolName = "tabs_create" -> executeTabsCreate(br, pg, input, driver)
      [] toolName = "tabs_context" -> executeTabsContext(br, pg)
      [] OTHER -> Failure([error |-> "UnknownTool", tool |-> toolName])

\* (variant: tabs_context is dispatched but not declared)
getToolDefinitionsShort ==
    <<[name |-> "computer"], [name |-> "read_page"], [name |-> "find"],
      [name |-> "get_page_text"], [name |-> "form_input"], [name |-> "navigate"],
      [name |-> "tabs_create"]>>

\* ToolExecutor.getToolDefinitions: the tools declared to the model (their
\* names; the input schemas are left out)
getToolDefinitions ==
    <<[name |-> "computer"], [name |-> "read_page"], [name |-> "find"],
      [name |-> "get_page_text"], [name |-> "form_input"], [name |-> "navigate"],
      [name |-> "tabs_create"], [name |-> "tabs_context"]>>

\* the tool calls made, each with the way the driver's navigation turns
\* out: every declared tool, names that are no tool (among them the name of
\* an action), and a call on a tab that has no page
ToolCalls ==
    {<<"computer", [ToolInput EXCEPT !.action = Click("left_click", NoRef, InputA)], "ok">>,
     <<"read_page", ToolInput, "ok">>,
     <<"find", [ToolInput EXCEPT !.query = <<"x">>], "ok">>,
     <<"get_page_text", ToolInput, "ok">>,
     <<"form_input", [ToolInput EXCEPT !.ref = RefId(1), !.value = <<"x">>], "ok">>,
     <<"navigate", [ToolInput EXCEPT !.url = ExampleCom], "ok">>,
     <<"navigate", [ToolInput EXCEPT !.url = ExampleCom], "navigationFails">>,
     <<"navigate", [ToolInput EXCEPT !.tab_id = 2, !.url = ExampleCom], "ok">>,
     <<"tabs_create", ToolInput, "ok">>,
     <<"tabs_context", ToolInput, "ok">>,
     <<"left_click", [ToolInput EXCEPT !.action = Click("left_click", NoRef, InputA)], "ok">>,
     <<"tabs_close", ToolInput, "ok">>}

InitTools ==
    /\ AgentIdle
    /\ browser = InitializedBrowser
    /\ page = PageOf(FormDocument)
    /\ batch = NoBatch

\* execute(toolName, input) is called and settles
ExecuteTool(toolName, input, driver, now) ==
    /\ Len(page.events) <= MaxSessionEvents
    /\ toolName = "tabs_create" => browser.nextTabId <= MaxSessionTabs
    /\ LET outcome == executeOn(browser, page, toolName, input, driver, now)
       IN  /\ page' = IF "page" \in DOMAIN outcome THEN outcome.page ELSE page
           /\ browser' = [(IF "browser" \in DOMAIN outcome THEN outcome.browser ELSE browser)
                             EXCEPT !.last =
                                 IF outcome.ok
                                 THEN [op |-> "execute", tool |-> toolName, input |-> input,
                                       ok |-> TRUE, result |-> outcome.result]
                                 ELSE [op |-> "execute", tool |-> toolName, input |-> input,
                                       ok |-> FALSE, error |-> outcome.error]]
    /\ UNCHANGED <<agentVars, batch>>

NextTools == \E c \in ToolCalls, now \in Clock : ExecuteTool(c[1], c[2], c[3], now)

SpecTools == InitTools /\ [][NextTools]_vars

\* ------------------------------------------------------ navigation targets
\* The navigate tool is called with one target after the other.
\* the targets navigate is called with
NavTargets ==
    {Back, Forward, ExampleCom, Http \o ExampleCom, Https \o ExampleCom,
     <<"H", "T", "T", "P", ":", "/", "/", "x">>, <<"h", "t", "t", "p", "s", ":", "/", "x">>,
     Append(Back, "x"), <<"h", "t", "t", "p">>}

NextNavigate ==
    \E url \in NavTargets, tabId \in TabIds, driver \in {"ok", "navigationFails"}, now \in Clock :
        ExecuteTool("navigate", [ToolInput EXCEPT !.tab_id = tabId, !.url = url], driver, now)

SpecNavigate == InitTools /\ [][NextNavigate]_vars

\* ------------------------------------------------------------ key presses
\* pressKey is called with one key after the other on tab 1 of a session.
\* key combinations of recognised modifiers, with the modifiers and the key
\* the driver is to get for each
KeyCases ==
    {[key |-> <<"Ctrl", "+", "a">>, modifiers |-> <<"Control">>, main |-> "a"],
     [key |-> <<"CMD", "+", "Shift", "+", "Return">>, modifiers |-> <<"Meta", "Shift">>, main |-> "Enter"],
     [key |-> <<"control", "+", "alt", "+", "shift", "+", "meta", "+", "tab">>,
      modifiers |-> <<"Control", "Alt", "Shift", "Meta">>, main |-> "Tab"],
     [key |-> <<"shift", "+", "ALT", "+", "Shift", "+", "A">>,
      modifiers |-> <<"Shift", "Alt", "Shift">>, main |-> "A"],
     [key |-> <<"Return">>, modifiers |-> <<>>, main |-> "Enter"],
     [key |-> <<"ESC">>, modifiers |-> <<>>, main |-> "Escape"],
     [key |-> <<"down">>, modifiers |-> <<>>, main |-> "ArrowDown"],
     [key |-> <<"a">>, modifiers |-> <<>>, main |-> "a"]}

\* the keys pressKey is called with: the combinations above, one with a
\* part that is no modifier, one that ends with "+", and the empty key
KeyArgs ==
    {c.key : c \in KeyCases}
      \cup {<<"Ctrl", "+", "fn", "+", "c">>, <<"Ctrl", "+">>, <<>>}

PressKey(tabId, key) ==
    /\ Len(page.events) <= MaxSessionEvents
    /\ LET outcome == pressKey(browser, page, tabId, key)
       IN  /\ page' = IF "page" \in DOMAIN outcome THEN outcome.page ELSE page
           /\ browser' = [browser EXCEPT !.last = ("key" :> key) @@ Called("pressKey", tabId, outcome)]
    /\ UNCHANGED <<agentVars, batch>>

NextKeys == \E tabId \in TabIds, key \in KeyArgs : PressKey(tabId, key)

SpecKeys == InitTools /\ [][NextKeys]_vars

TypeOK ==
    /\ call[1].pc \in {"idle", "chat", "tool", "done", "threw"}
    /\ Len(messages) <= MsgWindow

\* ------------------------------------------------- reading a task's record
\* The quantities below are read off the program state of call 1, the call
\* the sequential caller of Spec and SpecLive makes.
me == call[1]

Running == me.pc \in {"chat", "tool"}

Returned == me.pc = "done"

Threw == me.pc = "threw"

ToolUsesOf(content) == SelectSeq(content, LAMBDA b : b.type = "tool_use")

TextsOf(content) == SelectSeq(content, LAMBDA b : b.type = "text")

\* the turn in progress has results that are not (or never will be) appended
TurnPending == me.pc = "tool" \/ (Returned /\ me.result.kind = "retries")

RECURSIVE FlattenFrom(_, _, _)
\* the concatenation of the contents of the messages p.. with the given role
FlattenFrom(msgs, p, role) ==
    IF p > Len(msgs) THEN <<>>
    ELSE (IF msgs[p].role = role THEN msgs[p].content ELSE <<>>) \o FlattenFrom(msgs, p + 1, role)

\* the tool_result blocks the conversation holds, in order
MessageResults == FlattenFrom(messages, 2, "user")

\* every tool_result block of the task, in order
TaskResults == MessageResults \o (IF TurnPending THEN me.toolResults ELSE <<>>)

\* the tool_use blocks dispatched by the task, in order
Dispatched ==
    ToolUsesOf(FlattenFrom(messages, 2, "assistant"))
        \o (IF TurnPending THEN ToolUsesOf(me.assistantContent) ELSE <<>>)

\* the responses the task has received, in order
TurnsSeen ==
    LET assistant == SelectSeq(messages, LAMBDA m : m.role = "assistant")
    IN  [p \in 1..Len(assistant) |-> assistant[p].content]
            \o (IF TurnPending THEN <<me.response.content>> ELSE <<>>)

\* the history entries of the task's settled tool calls, in order
TaskHistory ==
    LET h == state.action_history
        n == Len(TaskResults)
    IN  SubSeq(h, Len(h) - n + 1, Len(h))

Failed(entry) == "error" \in DOMAIN entry

IsErrorResult(tr) == tr.content.form = "string" /\ tr.content.text[1] = "Error: "

TaskFailures == Cardinality({k \in 1..Len(TaskResults) : IsErrorResult(TaskResults[k])})

OneToolUsePerTurn == \A p \in 1..Len(TurnsSeen) : Len(ToolUsesOf(TurnsSeen[p])) = 1

AllSucceeded == TaskFailures = 0

AllFailed == TaskFailures = Len(TaskResults)

\* executeTask has just been called: it awaits its first model reply
JustStarted ==
    /\ me.pc = "chat"
    /\ Len(messages) = 1
    /\ me.response = NoResponse

\* ------------------------------------------------------------------ claims

\* C1: with max_actions_per_task = N, a model that requests exactly one tool
\* call per turn and never stops, and tool calls that all succeed, the task
\* dispatches exactly N tool calls (never more, and it does not end sooner)
\* and returns the budget-exceeded message that names N.
C1_BudgetTermination ==
    (me.pc # "idle" /\ OneToolUsePerTurn /\ AllSucceeded) =>
        /\ me.actionCount <= config.max_actions_per_task
        /\ me.pc = "chat" => me.actionCount < config.max_actions_per_task
        /\ ~Threw =>
              (Returned <=> (me.actionCount = config.max_actions_per_task /\ me.pc # "tool"))
        /\ Returned =>
              /\ me.result = BudgetExceeded(config.max_actions_per_task)
              /\ me.result.limit = config.max_actions_per_task
              /\ Len(TaskResults) = config.max_actions_per_task

C1_Witness ==
    /\ Returned
    /\ OneToolUsePerTurn
    /\ AllSucceeded
    /\ config.max_actions_per_task >= 2
    /\ me.result.kind = "budget"
    /\ me.actionCount = config.max_actions_per_task

\* C2: the number of tool calls dispatched during one executeTask call never
\* exceeds max_actions_per_task, whatever the model answers.
C2_NeverOverBudget == me.actionCount <= config.max_actions_per_task

\* C3: with max_retries = R and a tool that always fails, every executeTask
\* call that returns the retries-exceeded message does so after exactly R
\* failed tool calls of that task, having dispatched no call after the R-th
\* (stated for budgets that leave room for R calls).
C3_RetriesAfterExactlyR ==
    (/\ Returned
     /\ me.result.kind = "retries"
     /\ AllFailed
     /\ config.max_actions_per_task >= state.max_retries) =>
        /\ TaskFailures = state.max_retries
        /\ me.actionCount = state.max_retries

\* C4: at the start of every executeTask call error_count is 0 and
\* action_history is empty.
C4_StateResetPerTask ==
    JustStarted => (state.error_count = 0 /\ state.action_history = <<>>)

\* C5: every executeTask call whose model calls and tool calls all return
\* eventually returns a string outcome.
C5_AlwaysReturns == [](Running => <>(Returned \/ Threw))

\* the response that ended the turn the call is in (or was last in)
LastResponse == me.response

HasText(content) == Len(TextsOf(content)) > 0

LastText(content) == TextsOf(content)[Len(TextsOf(content))].text

HasNonEmptyText(content) ==
    \E k \in 1..Len(content) : content[k].type = "text" /\ content[k].text # ""

\* the task ended as completed: it returned the model's final text
Completed == Returned /\ me.result.kind = "final"

\* the response asks for no tool and says that no more are expected
NothingMoreExpected(r) == r.stop_reason = "end_turn" /\ ~HasToolUse(r.content)

\* C6 (as stated): the task returns the model's final text exactly when a
\* response requests no tool call and its stop condition says none is
\* expected; the returned string is the last text block of that response, or
\* "Task completed" when the response has no non-empty text block.
C6_FinalTextAsStated ==
    /\ Completed => NothingMoreExpected(LastResponse)
    /\ (me.pc # "idle" /\ NothingMoreExpected(LastResponse)) => Completed
    /\ Completed =>
          me.result.text = IF HasNonEmptyText(LastResponse.content)
                           THEN LastText(LastResponse.content)
                           ELSE "Task completed"

\* C6 (amended): as above, but the returned string is "Task completed"
\* whenever the response has no text block or its last text block is empty.
C6_FinalText ==
    /\ Completed => NothingMoreExpected(LastResponse)
    /\ (me.pc # "idle" /\ NothingMoreExpected(LastResponse)) => Completed
    /\ HasToolUse(LastResponse.content) => ~Completed
    /\ Completed =>
          me.result.text = IF HasText(LastResponse.content) /\ LastText(LastResponse.content) # ""
                           THEN LastText(LastResponse.content)
                           ELSE "Task completed"

C6_Witness ==
    /\ Completed
    /\ HasNonEmptyText(LastResponse.content)
    /\ LastText(LastResponse.content) = ""
    /\ me.result.text = "Task completed"

\* the tool_result an error must be reported as: "Error: " and the message
\* of the failed call's history entry, answering the tool_use block
ErrorResultFor(use, entry) ==
    [type |-> "tool_result",
     tool_use_id |-> use.id,
     content |-> [form |-> "string", text |-> <<"Error: ">> \o entry.error]]

\* the k-th tool call of the task failed and its error is part of the
\* conversation
FedBack(k) ==
    /\ k <= Len(MessageResults)
    /\ Failed(TaskHistory[k])
    /\ MessageResults[k] = ErrorResultFor(Dispatched[k], TaskHistory[k])

\* no turn is in progress
AtRest == me.pc \in {"chat", "done"}

\* a rejection that reaches the caller of executeTask comes from llm.chat
OnlyChatErrorsPropagate == Threw => me.result = Rejection(ChatError)

\* C7 (as stated): every tool-dispatch failure is caught inside executeTask,
\* never propagates to its caller, and is fed back into the conversation as
\* an "Error: ..." tool_result answering the failing tool_use id.
C7_ErrorsFedBackAsStated ==
    /\ OnlyChatErrorsPropagate
    /\ AtRest => \A k \in 1..Len(TaskResults) : Failed(TaskHistory[k]) => FedBack(k)

\* C7 (amended): every tool-dispatch failure is caught, never propagates, and
\* is recorded as an "Error: ..." tool_result answering the failing
\* tool_use id; that result is fed back into the conversation with the
\* turn's other results unless the turn is cut short by the
\* retries-exceeded return.
C7_ErrorsFedBack ==
    LET results == TaskResults
        inConversation == MessageResults
        uses == Dispatched
        entries == TaskHistory
        cutShort == Returned /\ me.result.kind = "retries"
    IN  /\ OnlyChatErrorsPropagate
        /\ Len(results) <= Len(uses)
        /\ Len(results) <= Len(state.action_history)
        /\ \A k \in 1..Len(results) :
              Failed(entries[k]) =>
                  /\ results[k] = ErrorResultFor(uses[k], entries[k])
                  /\ (AtRest /\ ~cutShort) =>
                        (k <= Len(inConversation) /\ inConversation[k] = results[k])
        /\ cutShort =>
              /\ Len(results) > 0
              /\ Failed(entries[Len(results)])
              /\ me.result.error = entries[Len(results)].error

\* an unknown tool's failure was fed back and the model is asked again
C7_Witness ==
    /\ me.pc = "chat"
    /\ \E k \in 1..Len(TaskResults) :
          /\ FedBack(k)
          /\ TaskHistory[k].error = <<"Unknown tool: ", "bogus">>

\* C8: a failure of the model-service call propagates out of executeTask as
\* it is (no string result, no retry); it changes neither error_count nor
\* action_history (nor the conversation), and the call makes no further
\* model or tool call: the next step, if any, is a new executeTask call.
C8_ChatFailurePropagates ==
    [][/\ (me.pc = "chat" /\ call'[1].pc = "threw") =>
              /\ state' = state
              /\ messages' = messages
              /\ call'[1].result = Rejection(ChatError)
              /\ call'[1].actionCount = me.actionCount
       /\ me.pc = "threw" =>
              \/ call'[1].pc = "threw"
              \/ /\ call'[1].pc \in {"chat", "done"}
                 /\ call'[1].actionCount = 0
                 /\ Len(messages') = 1
                 /\ state' = state]_vars

C8_Witness ==
    /\ Threw
    /\ me.actionCount > 0
    /\ state.error_count > 0

\* C9: a successful tool call sets error_count to 0, a failed tool call
\* increases it by exactly 1 (across turn boundaries too), and no other step
\* (model reply, text block, start of a task) changes it.
C9_ErrorCounter ==
    [][LET h == state.action_history
           hn == state'.action_history
       IN  /\ me.pc = "tool" =>
                 /\ Len(hn) = Len(h) + 1
                 /\ Failed(hn[Len(hn)]) => state'.error_count = state.error_count + 1
                 /\ ~Failed(hn[Len(hn)]) => state'.error_count = 0
           /\ me.pc # "tool" => state'.error_count = state.error_count]_vars

\* a failure in one turn, then a success in the next turn of the same task
\* has reset the counter
C9_Witness ==
    /\ state.error_count = 0
    /\ Len(TaskResults) >= 2
    /\ LET h == state.action_history
       IN  /\ Failed(h[Len(h) - 1])
           /\ ~Failed(h[Len(h)])
    /\ Len(messages) >= 5

\* the tool_result blocks answer the tool_use blocks, one each, in order
Answers(results, uses) ==
    /\ Len(results) = Len(uses)
    /\ \A k \in 1..Len(uses) :
          /\ results[k].type = "tool_result"
          /\ results[k].tool_use_id = uses[k].id

\* C10: in the conversation every assistant message with tool_use blocks is
\* directly followed by one user message that holds exactly one tool_result
\* per tool_use block, in the same order and with matching ids (failed calls
\* included); an assistant message without tool_use blocks is followed by no
\* tool-result message, and tool-result messages occur nowhere else.
C10_ResultsAnswerToolUses ==
    \A p \in 2..Len(messages) :
        /\ (messages[p].role = "assistant" /\ HasToolUse(messages[p].content)) =>
              /\ p + 1 <= Len(messages)
              /\ messages[p + 1].role = "user"
              /\ Answers(messages[p + 1].content, ToolUsesOf(messages[p].content))
        /\ (messages[p].role = "assistant" /\ ~HasToolUse(messages[p].content)) =>
              (p + 1 <= Len(messages) => messages[p + 1].role = "assistant")
        /\ messages[p].role = "user" =>
              /\ messages[p - 1].role = "assistant"
              /\ Len(messages[p].content) > 0

\* a turn whose only call failed did not end the task, and a later turn
\* with two tool_use blocks had one call succeed and one fail
C10_Witness ==
    /\ Len(messages) >= 5
    /\ messages[3].role = "user"
    /\ IsErrorResult(messages[3].content[1])
    /\ \E p \in 4..(Len(messages) - 1) :
          /\ messages[p].role = "assistant"
          /\ Len(ToolUsesOf(messages[p].content)) = 2
          /\ ~IsErrorResult(messages[p + 1].content[1])
          /\ IsErrorResult(messages[p + 1].content[2])

IsPrefix(s, t) == Len(s) <= Len(t) /\ SubSeq(t, 1, Len(s)) = s

IsStrictPrefix(s, t) == Len(s) < Len(t) /\ SubSeq(t, 1, Len(s)) = s

\* C11: within one executeTask call the conversation only grows: the list
\* handed to a model invocation strictly extends the list handed to the
\* previous one (and is left alone while a tool call is awaited); a new
\* executeTask call starts from exactly one user message, the description of
\* its task.
C11_ConversationGrows ==
    [][/\ Running => IsPrefix(messages, messages')
       /\ (Running /\ call'[1].pc = "chat") => IsStrictPrefix(messages, messages')
       /\ (me.pc = "tool" /\ call'[1].pc = "tool") => messages' = messages
       /\ ~Running =>
             /\ call'[1].pc = "chat"
             /\ messages' = <<[role |-> "user", content |-> call'[1].task]>>]_vars

\* a second task, started after a task that dispatched a tool call, has
\* been through a turn of its own
C11_Witness ==
    /\ me.pc = "chat"
    /\ me.task = "taskB"
    /\ messages[1] = [role |-> "user", content |-> "taskB"]
    /\ Len(messages) >= 3
    /\ Len(state.action_history) > Len(TaskResults)

\* C12: the action history is append-only and complete: a step that settles
\* a tool call appends exactly one entry, for the tool_use block that was
\* dispatched (so entries are in dispatch order), with an error field exactly
\* when the call failed; no other step changes the history, and no step
\* changes or removes an entry.
C12_HistoryAppendOnly ==
    [][LET h == state.action_history
           hn == state'.action_history
           b == me.response.content[me.block]
           results == call'[1].toolResults
       IN  /\ IsPrefix(h, hn)
           /\ me.pc # "tool" => hn = h
           /\ me.pc = "tool" =>
                 /\ Len(hn) = Len(h) + 1
                 /\ hn[Len(hn)].tool = b.name
                 /\ hn[Len(hn)].input = b.input
                 /\ results[Len(results)].tool_use_id = b.id
                 /\ Failed(hn[Len(hn)]) <=> IsErrorResult(results[Len(results)])
                 /\ Failed(hn[Len(hn)]) <=> ~("output" \in DOMAIN hn[Len(hn)])]_vars

\* the history holds a failed call of an earlier task and, after it, a
\* successful and a failed call of the current task
C12_Witness ==
    LET h == state.action_history
    IN  /\ Len(h) = 3
        /\ Len(TaskResults) = 2
        /\ Failed(h[1])
        /\ ~Failed(h[2])
        /\ Failed(h[3])

\* the tool_use blocks of the response among its first k blocks
ToolUsesUpTo(content, k) == ToolUsesOf(SubSeq(content, 1, k))

\* C13: a call awaits one thing at a time; while it awaits a tool call, the
\* tool_use blocks before the awaited one have all been settled, in block
\* order, and the model has not been asked again; when the model is asked
\* again, every tool_use block of the last response has been settled.
C13_OneToolAtATime ==
    /\ me.pc = "tool" =>
          /\ me.block \in 1..Len(me.response.content)
          /\ me.response.content[me.block].type = "tool_use"
          /\ Answers(me.toolResults, ToolUsesUpTo(me.response.content, me.block - 1))
          /\ me.assistantContent = SubSeq(me.response.content, 1, me.block)
          /\ \A p \in 2..Len(messages) : messages[p].content # me.response.content
    /\ (me.pc = "chat" /\ me.response # NoResponse) =>
          /\ Answers(me.toolResults, ToolUsesOf(me.response.content))
          /\ me.block = Len(me.response.content) + 1

\* the second tool call of a response is awaited, the first has settled
C13_Witness ==
    /\ me.pc = "tool"
    /\ Len(me.toolResults) = 1
    /\ me.block = 3
    /\ me.response.content[2].type = "tool_use"

\* the elements of the document that carry a ref id
Tagged == {e \in page.present : page.ref[e] # NoRef}

\* C16: no two distinct elements of the document carry the same ref id,
\* whatever readPage and findElements calls were made and whatever elements
\* were added in between (an id given to a second element is an id
\* allocated again, as elements keep their ids).
C16_RefIdsUnique ==
    \A e1 \in Tagged : \A e2 \in Tagged : e1 # e2 => page.ref[e1] # page.ref[e2]

\* readPage has just returned a tree
JustRead == page.last.op = "readPage" /\ page.last.ok

\* the page after the same readPage call is made once more
ReadAgain ==
    readPage(browser, page, 1, page.last.args.maxDepth, page.last.args.filterType,
             page.last.args.startRefId)

\* C17 (as stated): readPage called twice in succession with the same
\* arguments and no change of the document in between reports the same ref
\* id for each element both times: the second call allocates no new id and
\* returns the same text.
C17_ReadPageStableAsStated ==
    JustRead => (ReadAgain.ref = page.ref /\ ReadAgain.last.tree = page.last.tree)

\* C17 (amended): as above, for calls that start at the same element (no
\* start ref, or a start ref that names the same element, or none, before
\* both calls).
C17_ReadPageStable ==
    (JustRead /\ StartElement(page, page.last.args.startRefId) = page.last.root) =>
        (ReadAgain.ref = page.ref /\ ReadAgain.last.tree = page.last.tree)

\* a tree of three lines was read from an element that was named by its
\* ref id, and reading it again gives the same tree
C17_Witness ==
    /\ JustRead
    /\ page.last.args.startRefId # NoRef
    /\ page.last.root # Body
    /\ StartElement(page, page.last.args.startRefId) = page.last.root
    /\ Len(page.last.tree) >= 2
    /\ ReadAgain.last.tree = page.last.tree

\* C18: an element that carries a ref id keeps that id through every later
\* readPage and findElements call: both only give ids to elements without.
C18_RefsKept ==
    [][\A e \in page.present : page.ref[e] # NoRef => page'.ref[e] = page.ref[e]]_vars

\* findElements returned elements of which one had its id from readPage,
\* and gave another its id
C18_Witness ==
    /\ page.last.op = "findElements"
    /\ page.last.ok
    /\ \E k \in 1..Len(page.last.elements) : page.last.elements[k].ref_id.kind = "ref"
    /\ \E k \in 1..Len(page.last.elements) : page.last.elements[k].ref_id.kind = "found"

\* the string holds the substring, letter case aside
ContainsIgnoringCase(str, sub) ==
    \E k \in 0..(Len(str) - Len(sub)) :
        toLowerCase(SubSeq(str, k + 1, k + Len(sub))) = toLowerCase(sub)

\* the element holds the query in its text content or in one of the
\* attributes aria-label, placeholder, title, id, class
HoldsQuery(e, query) ==
    \/ ContainsIgnoringCase(textContent(page, e), query)
    \/ \E name \in DOMAIN page.doc.attrs[e] : ContainsIgnoringCase(page.doc.attrs[e][name], query)

\* the elements of the document that hold the query, in document order
Matching(query) == SelectSeq(PreOrder(page), LAMBDA e : HoldsQuery(e, query))

JustFound == page.last.op = "findElements" /\ page.last.ok

\* C19: findElements returns exactly the first min(20, m) elements, in
\* document order, of the m elements that hold the query (letter case
\* aside) in their text content, aria-label, placeholder, title, id or class
\* list: never more than 20, and none that does not hold the query.
C19_BoundedSearch ==
    JustFound =>
        LET found == [k \in 1..Len(page.last.elements) |-> page.last.elements[k].element]
            m == Len(Matching(page.last.query))
        IN  /\ Len(found) = (IF m < 20 THEN m ELSE 20)
            /\ found = SubSeq(Matching(page.last.query), 1, Len(found))
            /\ \A k \in 1..Len(found) : HoldsQuery(found[k], page.last.query)

\* more than 20 elements hold the query, in a document whose order is not
\* the order of the element numbers and which has other elements too
C19_Witness ==
    /\ JustFound
    /\ Len(page.last.elements) = 20
    /\ Len(Matching(page.last.query)) > 20
    /\ Len(Matching(page.last.query)) < Cardinality(page.present)
    /\ \E k \in 1..19 : page.last.elements[k].element > page.last.elements[k + 1].element

\* the tab ids in the map of pages
TabsOpen == DOMAIN browser.pages

\* C20: tab ids are monotonic and never reused: a tab that enters the map
\* has an id greater than every id given out before (all of which lie below
\* nextTabId, which never decreases), and no step but close removes a tab
\* from the map.
C20_TabIdsMonotonic ==
    [][/\ \A t \in TabsOpen : t < browser.nextTabId
       /\ browser'.nextTabId >= browser.nextTabId
       /\ \A t \in DOMAIN browser'.pages \ TabsOpen :
             /\ t >= browser.nextTabId
             /\ t < browser'.nextTabId
       /\ browser'.last.op # "close" => TabsOpen \subseteq DOMAIN browser'.pages]_vars

\* a session was closed and initialized again, and a tab was created in it
C20_Witness ==
    /\ browser.launched
    /\ browser.last.op = "createTab"
    /\ browser.last.ok
    /\ Cardinality(TabsOpen) = 2
    /\ browser.nextTabId = 5

RECURSIVE AppliedInOrder(_, _, _)
\* the page after the actions are applied to it one after the other, each
\* to the page the one before has left
AppliedInOrder(pg, tabId, actions) ==
    IF actions = <<>> THEN pg
    ELSE LET outcome == executeAction(browser, pg, tabId, Head(actions))
         IN  AppliedInOrder(IF outcome.ok THEN outcome.page ELSE pg, tabId, Tail(actions))

\* C14: in a batched computer call the actions are applied to the page
\* strictly in list order, one at a time: at every moment of the call the
\* page is what the first `done` actions, applied in order, each to the page
\* left by the one before, make of the page the call found; so for
\* click(A), type("x"), key("Return") the text goes to A and Return is
\* pressed with A in focus and "x" typed.
C14_BatchInOrder ==
    batch.pc # "idle" =>
        /\ batch.done <= Len(batch.actions)
        /\ batch.pc \in {"shooting", "resolved"} => batch.done = Len(batch.actions)
        /\ page = AppliedInOrder(batch.before, batch.input.tab_id,
                                 SubSeq(batch.actions, 1, batch.done))
        /\ (batch.pc = "resolved" /\ batch.actions = ClickTypeReturn) =>
              /\ page.focus = InputA
              /\ page.value[InputA] = batch.before.value[InputA] \o <<"x">>
              /\ LET n == Len(page.events)
                 IN  /\ n = Len(batch.before.events) + 3
                     /\ page.events[n - 2].op = "click"
                     /\ page.events[n - 2].target = InputA
                     /\ page.events[n - 1] = [op |-> "type", text |-> <<"x">>, focus |-> InputA]
                     /\ page.events[n] = [op |-> "press", key |-> "Enter", focus |-> InputA]

\* click(A), type("x"), key("Return") has run on a page whose focus was on
\* another element
C14_Witness ==
    /\ batch.pc = "resolved"
    /\ batch.actions = ClickTypeReturn
    /\ batch.before.focus = InputB
    /\ page.value[InputA] = <<"x">>
    /\ page.value[InputB] = <<"x">>

\* the computer call has settled
Settled == batch.pc \in {"resolved", "rejected"}

\* the call's result is a screenshot of the page as all its actions left it
FreshScreenshot ==
    /\ "kind" \in DOMAIN batch.result
    /\ batch.result.kind = "screenshot"
    /\ batch.result.shows = ViewOf(page)
    /\ batch.done = Len(batch.actions)

FailedOn ==
    \/ /\ batch.done < Len(batch.actions)
       /\ ~executeAction(browser, page, batch.input.tab_id, batch.actions[batch.done + 1]).ok
    \/ /\ batch.done = Len(batch.actions)
       /\ ~HasPage(browser, batch.input.tab_id)

Max(S) == CHOOSE m \in S : \A x \in S : x <= m

\* the ids of the tabs a getTabsContext() made now would return
Listed(br) == {getTabsContext(br)[k].id : k \in 1..Len(getTabsContext(br))}

\* the last call on the session was a createTab() with no URL, and it returned
CreatedBlankTab(br) == br.last.op = "createTab" /\ br.last.ok /\ br.last.given = NoUrl

\* C21 as stated: the tab createTab() returns has the highest id in use
\* plus one, and the getTabsContext() after any later step lists it.
C21_NewTabListedAsStated ==
    [][/\ CreatedBlankTab(browser') /\ browser'.nextTabId # browser.nextTabId
            => browser'.last.tab.id = (IF TabsOpen = {} THEN 0 ELSE Max(TabsOpen)) + 1
       /\ CreatedBlankTab(browser) => browser.last.tab.id \in Listed(browser')]_vars

\* C21: createTab() with no URL on an initialized session returns a Tab
\* whose id is the session's next tab id, which is greater than every tab
\* id in use before the call and exactly one greater than the highest of
\* them when a tab is open; getTabsContext() lists the tab from then on,
\* after every step that is not a close.
C21_NewTabListed ==
    [][/\ CreatedBlankTab(browser') /\ browser'.nextTabId # browser.nextTabId
            => /\ browser'.last.tab.id = browser.nextTabId
               /\ \A t \in TabsOpen : t < browser'.last.tab.id
               /\ TabsOpen # {} => browser'.last.tab.id = Max(TabsOpen) + 1
               /\ browser'.last.tab.id \in Listed(browser')
               /\ browser'.last.tab.url = AboutBlank
       /\ browser'.last.op # "close" => Listed(browser) \subseteq Listed(browser')]_vars

\* a tab was created with no URL in a session that was closed and initialized
\* again: its id is above the number of tabs, and it is listed
C21_Witness ==
    /\ CreatedBlankTab(browser)
    /\ browser.last.tab.id > Cardinality(TabsOpen)
    /\ Cardinality(TabsOpen) = 2
    /\ browser.last.tab.id \in Listed(browser)

\* C22: after every successful initialize that found a page in the launched
\* browser, the tab the agent's initial current_tab_id (1) refers to exists.
C22_InitializeCreatesTabOne ==
    browser.last.op = "initialize" /\ browser.last.ok /\ browser.last.opened > 0
        => /\ 1 \in TabsOpen
           /\ NewAgentState(1).current_tab_id \in TabsOpen

\* ------------------------------------------------- calls on the session
\* the step is a call of a tab-scoped operation
TabCall == "tab" \in DOMAIN browser'.last /\ browser'.last.op \in TabScoped

\* C23: a tab-scoped operation called with a tab id that has no page fails
\* with TabNotFound, the page has received nothing from the driver, and the
\* tab map and the next tab id are as they were.
C23_UnknownTabFails ==
    [][TabCall /\ ~HasPage(browser, browser'.last.tab)
          => /\ ~browser'.last.ok
             /\ browser'.last.error = TabNotFound(browser, browser'.last.tab)
             /\ page' = page
             /\ browser'.pages = browser.pages
             /\ browser'.nextTabId = browser.nextTabId
             /\ browser'.launched = browser.launched]_vars

\* on a launched session with a tab open whose page has received input, a
\* call on another tab has failed
C23_Witness ==
    /\ browser.launched
    /\ TabsOpen # {}
    /\ page.events # <<>>
    /\ "tab" \in DOMAIN browser.last
    /\ browser.last.op = "formInput"
    /\ ~browser.last.ok
    /\ browser.last.error.error = "TabNotFound"
    /\ browser.last.tab \notin TabsOpen

\* C24: every operation that needs an active browser (createTab and the
\* tab-scoped operations) fails with BrowserNotInitialized when it is
\* called before initialize or after close.
C24_NotInitializedFails ==
    [][~browser.launched
          => /\ browser'.last.op = "createTab"
                   => ~browser'.last.ok /\ browser'.last.error = "BrowserNotInitialized"
             /\ TabCall
                   => ~browser'.last.ok /\ browser'.last.error.error = "BrowserNotInitialized"]_vars

\* ------------------------------------------------- tools on the session
\* the step is a call of execute
ToolCall == browser'.last.op = "execute"

\* the names declared to the model
DeclaredNames == {getToolDefinitions[k].name : k \in 1..Len(getToolDefinitions)}

\* the call was rejected because the tool is not known
UnknownTool(last) == ~last.ok /\ last.error.error = "UnknownTool"

\* C25: when tab 1 exists, the navigate tool called with tab 1 and the
\* target "example.com" (the driver's navigation completing) makes the URL
\* of tab 1 https://example.com and returns a screenshot with a timestamp
\* above 0 that shows the page as the navigation left it.
C25_NavigateExampleCom ==
    [][(/\ ToolCall
        /\ browser'.last.tool = "navigate"
        /\ browser'.last.input.tab_id = 1
        /\ browser'.last.input.url = ExampleCom
        /\ HasPage(browser, 1)
        /\ ~(~browser'.last.ok /\ browser'.last.error.error = "NavigationFailure"))
          => /\ browser'.last.ok
             /\ browser'.pages[1].url
                   = <<"h", "t", "t", "p", "s", ":", "/", "/", "e", "x", "a", "m", "p", "l", "e", ".", "c", "o", "m">>
             /\ page'.events[Len(page'.events)] = [op |-> "goto", url |-> browser'.pages[1].url]
             /\ browser'.last.result.kind = "screenshot"
             /\ browser'.last.result.timestamp > 0
             /\ browser'.last.result.shows = ViewOf(page')
             /\ page'.focus = 0]_vars

\* the navigate tool has taken tab 1 to example.com from a page on which an
\* input had been clicked
C25_Witness ==
    /\ browser.last.op = "execute"
    /\ browser.last.tool = "navigate"
    /\ browser.last.ok
    /\ browser.last.input.url = ExampleCom
    /\ browser.last.input.tab_id = 1
    /\ Len(page.events) = 2
    /\ page.events[1].op = "click"
    /\ page.events[1].target = InputA
    /\ browser.pages[1].back = <<AboutBlank>>

\* C26: the names getToolDefinitions declares are exactly the eight names
\* execute dispatches, and execute called with any other name fails with
\* UnknownTool and leaves the session and the page as they were.
C26_ToolTablesInSync ==
    [][ToolCall
          => /\ Cardinality(DeclaredNames) = 8
             /\ browser'.last.tool \in DeclaredNames <=> ~UnknownTool(browser'.last)
             /\ browser'.last.tool \notin DeclaredNames
                   => /\ UnknownTool(browser'.last)
                      /\ browser'.last.error.tool = browser'.last.tool
                      /\ page' = page
                      /\ browser'.pages = browser.pages
                      /\ browser'.nextTabId = browser.nextTabId
                      /\ browser'.launched = browser.launched]_vars

\* execute was called with the name of an action on a page that had
\* received input, and has failed with UnknownTool
C26_Witness ==
    /\ browser.last.op = "execute"
    /\ browser.last.tool = "left_click"
    /\ UnknownTool(browser.last)
    /\ page.events # <<>>
    /\ Cardinality(TabsOpen) = 2

\* C27: navigate routes the targets "back" and "forward" to the history and
\* never to page.goto; any other target goes to page.goto, unchanged if it
\* starts with http:// or https://, else with https:// put before it once;
\* the URL handed to page.goto is left unchanged by normalizing it again.
C27_UrlNormalization ==
    [][(ToolCall /\ browser'.last.tool = "navigate" /\ HasPage(browser, browser'.last.input.tab_id))
          => LET target == browser'.last.input.url
                 sent == page'.events[Len(page'.events)]
             IN  /\ Len(page'.events) = Len(page.events) + 1
                 /\ target = Back => sent = [op |-> "goBack"]
                 /\ target = Forward => sent = [op |-> "goForward"]
                 /\ target \notin {Back, Forward}
                       => /\ sent.op = "goto"
                          /\ IF startsWith(target, Http) \/ startsWith(target, Https)
                             THEN sent.url = target
                             ELSE /\ sent.url = Https \o target
                                  /\ SubSeq(sent.url, Len(Https) + 1, Len(sent.url)) = target
                          /\ NormalizeUrl(sent.url) = sent.url
                          /\ NormalizeUrl(NormalizeUrl(target)) = NormalizeUrl(target)]_vars

\* the tool went back in the history of tab 1 after it had loaded a target
\* written with an upper-case scheme, which was given the https:// prefix
C27_Witness ==
    /\ browser.last.op = "execute"
    /\ browser.last.tool = "navigate"
    /\ browser.last.ok
    /\ browser.last.input.url = Back
    /\ page.events[Len(page.events)] = [op |-> "goBack"]
    /\ browser.pages[1].url = AboutBlank
    /\ browser.pages[1].forward = <<Https \o <<"H", "T", "T", "P", ":", "/", "/", "x">>>>

\* ------------------------------------------------------------ clicks, keys
\* the action the computer call is executing
ActionRunning == batch.actions[NextAction(batch)]

\* C28: for every click action that executeAction completes, with any
\* combination of the optional fields coordinate and ref, the page receives
\* exactly one click: on the element the ref resolves to when a ref is
\* given, else at the coordinate.
C28_ExactlyOneClick ==
    [][(batch.pc = "acting" /\ batch'.pc # "rejected" /\ ActionRunning.action \in ClickActions)
          => /\ Len(page'.events) = Len(page.events) + 1
             /\ page'.events[Len(page'.events)].op = "click"
             /\ page'.events[Len(page'.events)].target =
                   IF ActionRunning.ref # NoRef THEN querySelector(page, ActionRunning.ref)
                   ELSE ElementAt(page, ActionRunning.coordinate)]_vars

\* the events the page has received in the step
NewEvents == SubSeq(page'.events, Len(page.events) + 1, Len(page'.events))

RECURSIVE KeyEvents(_, _)
\* one event of a kind for each of the keys, in their order
KeyEvents(op, keys) ==
    IF keys = <<>> THEN <<>> ELSE <<[op |-> op, key |-> Head(keys)]>> \o KeyEvents(op, Tail(keys))

Reversed(seq) == [i \in 1..Len(seq) |-> seq[Len(seq) + 1 - i]]

\* C29: for a key combination m1+...+mk+key of recognised modifiers (in any
\* case) pressKey sends the driver down(m1), ..., down(mk), press(normalized
\* key), up(mk), ..., up(m1), in this order and nothing else; for a key
\* without "+" it sends a single press of the normalized name.
C29_ModifierOrder ==
    [][\A c \in KeyCases :
          (/\ browser'.last.op = "pressKey"
           /\ browser'.last.key = c.key
           /\ HasPage(browser, browser'.last.tab))
             => /\ browser'.last.ok
                /\ NewEvents = KeyEvents("keydown", c.modifiers)
                                 \o <<[op |-> "press", key |-> c.main, focus |-> page.focus]>>
                                 \o KeyEvents("keyup", Reversed(c.modifiers))]_vars

\* a combination of four different modifiers, written in lower case, was
\* pressed after a single key
C29_Witness ==
    /\ browser.last.op = "pressKey"
    /\ browser.last.ok
    /\ Len(browser.last.key) = 9
    /\ Len(page.events) = 10
    /\ page.events[1] = [op |-> "press", key |-> "Escape", focus |-> 0]
    /\ page.events[2] = [op |-> "keydown", key |-> "Control"]
    /\ page.events[10] = [op |-> "keyup", key |-> "Control"]

\* C30: every wait action suspends for at most 30 seconds: the duration
\* handed to the session's wait is the requested one if that is at most 30,
\* and 30 otherwise.
C30_WaitClamped ==
    [][(batch.pc = "acting" /\ ActionRunning.action = "wait")
          => /\ batch'.pc # "rejected"
             /\ Len(page'.events) = Len(page.events) + 1
             /\ LET handed == page'.events[Len(page'.events)]
                IN  /\ handed.op = "wait"
                    /\ handed.seconds <= 30
                    /\ ActionRunning.duration <= 30 => handed.seconds = ActionRunning.duration
                    /\ ActionRunning.duration >= 30 => handed.seconds = 30]_vars

\* waits of 40 and of 29 seconds were requested, one after the other
C30_Witness ==
    /\ batch.pc = "resolved"
    /\ batch.actions = <<Wait(29)>>
    /\ Len(page.events) >= 2
    /\ page.events[Len(page.events)] = [op |-> "wait", seconds |-> 29]
    /\ \E k \in 1..Len(page.events) - 1 : page.events[k] = [op |-> "wait", seconds |-> 30]

\* ------------------------------------------------- depth and filter of readPage
RECURSIVE LevelsBelow(_, _)
\* how many levels the element lies below the root in the document tree
\* (for an element of the root's subtree)
LevelsBelow(e, root) == IF e = root THEN 0 ELSE 1 + LevelsBelow(page.doc.parent[e], root)

RECURSIVE HiddenUpTo(_, _)
\* the element, or one of its ancestors up to the root, is display:none or
\* visibility:hidden
HiddenUpTo(e, root) ==
    \/ e \in page.doc.hidden
    \/ e # root /\ HiddenUpTo(page.doc.parent[e], root)

RECURSIVE InteractiveAbove(_, _)
\* how many interactive ancestors the element has from the root down
InteractiveAbove(e, root) ==
    IF e = root THEN 0
    ELSE InteractiveAbove(page.doc.parent[e], root)
           + (IF page.doc.parent[e] \in page.doc.interactive THEN 1 ELSE 0)

\* the elements that have a line in the tree readPage returned in the step
LinesOf(last) == {last.tree[k].element : k \in 1..Len(last.tree)}

\* the step is a readPage call that returned a tree
ReadStep == page'.last.op = "readPage" /\ page'.last.ok /\ page' # page

\* C31: under both filters, an element that lies more than maxDepth levels
\* below the start element, or that is hidden or has a hidden ancestor, has
\* no line in the tree and is given no ref id by the call.
C31_DepthAndHiddenHonoured ==
    [][ReadStep =>
          \A e \in page.present :
              (\/ e \notin {Subtree(page, page'.last.root)[k] : k \in 1..Len(Subtree(page, page'.last.root))}
               \/ LevelsBelow(e, page'.last.root) > page'.last.args.maxDepth
               \/ HiddenUpTo(e, page'.last.root))
                 => e \notin LinesOf(page'.last) /\ page'.ref[e] = page.ref[e]]_vars

\* C32: with filter "interactive" the elements with a line are exactly the
\* interactive elements of the start element's subtree that are not hidden,
\* have no hidden ancestor and have at most maxDepth interactive ancestors
\* in the subtree; each of them carries the ref id of its line, the lines
\* come in document order, and no other element is given a ref id.
C32_InteractiveFilter ==
    [][(ReadStep /\ page'.last.args.filterType = "interactive") =>
          LET root == page'.last.root
              under == Subtree(page, root)
              tree == page'.last.tree
          IN  /\ LinesOf(page'.last) =
                    {e \in {under[k] : k \in 1..Len(under)} :
                        /\ e \in page.doc.interactive
                        /\ ~HiddenUpTo(e, root)
                        /\ InteractiveAbove(e, root) <= page'.last.args.maxDepth}
              /\ \A k \in 1..Len(tree) :
                    /\ tree[k].ref # NoRef
                    /\ page'.ref[tree[k].element] = tree[k].ref
                    /\ tree[k].indent = InteractiveAbove(tree[k].element, root)
              /\ \A j, k \in 1..Len(tree) :
                    j < k => \E a, b \in 1..Len(under) :
                                a < b /\ under[a] = tree[j].element /\ under[b] = tree[k].element
              /\ \A e \in page.present :
                    e \notin LinesOf(page'.last) => page'.ref[e] = page.ref[e]]_vars

\* an interactive element was surfaced, one level deep, through a parent
\* that is not interactive and has no line
C32_Witness ==
    /\ JustRead
    /\ page.last.args.filterType = "interactive"
    /\ Len(page.last.tree) = 2
    /\ page.last.tree[2].indent = 1
    /\ page.doc.parent[page.last.tree[2].element] \notin page.doc.interactive
    /\ page.ref[page.doc.parent[page.last.tree[2].element]] = NoRef

\* ------------------------------------------- a task that calls the computer
\* executeTask runs on a session whose tab 1 shows the tagged form; the
\* model asks for computer calls, and each call is the batch that
\* ToolExecutor.executeComputer runs on the page.
ComputerBlock(input) == [type |-> "tool_use", id |-> <<0, 0>>, name |-> "computer", input |-> input]

\* the batches the model asks for: one that succeeds, one whose second
\* action names a ref that does not resolve, one whose only action does, one
\* on a tab that does not exist, one whose key action names no key
BatchInputs ==
    { ComputerInput(1, ClickTypeReturn, NoAction),
      ComputerInput(1, <<Type(<<"x">>), Click("left_click", RefId(7), NoCoordinate), Type(<<"x">>)>>, NoAction),
      ComputerInput(1, <<>>, Click("left_click", RefId(7), NoCoordinate)),
      ComputerInput(2, <<Action("screenshot")>>, NoAction),
      ComputerInput(1, <<Type(<<"x">>), Key(<<"Ctrl", "+">>), Type(<<"x">>)>>, NoAction) }

BatchResponses ==
    {ChatResponse(<<ComputerBlock(input)>>, "tool_use") : input \in BatchInputs}
    \cup {ChatResponse(<<ComputerBlock(ComputerInput(1, <<>>, Click("left_click", RefId(7), NoCoordinate))),
                         ComputerBlock(ComputerInput(1, <<>>, Type(<<"x">>)))>>, "tool_use"),
          ChatResponse(<<TextBlock("a")>>, "end_turn")}

\* error.message of the Error a failed operation threw
MessageOf(error) == <<error.error>>

\* the executeComputer call that the tool_use block a call awaits stands for
BatchFor(l, pg) ==
    IF l.pc = "tool" THEN StartBatch(l.response.content[l.block].input, pg) ELSE NoBatch

InitBatchTask ==
    /\ config \in [max_actions_per_task : 1..MaxActionsBound, max_retries : 1..MaxRetriesBound]
    /\ state = NewAgentState(config.max_retries)
    /\ LET r == LoopHead([IdleCall EXCEPT !.task = "taskA"], <<[role |-> "user", content |-> "taskA"]>>)
       IN  /\ call = [c \in CallIds |-> IF c = 1 THEN r.l ELSE IdleCall]
           /\ messages = r.msgs
    /\ browser = InitializedBrowser
    /\ page = TaggedFormPage
    /\ batch = NoBatch

\* llm.chat resolved with `response`; the call runs on to its first
\* toolExecutor.execute, which starts executeComputer
ModelCallsComputer(c, response) ==
    /\ call[c].pc = "chat"
    /\ LET stamped == [response EXCEPT !.content = StampIds(@, Len(messages))]
           l0 == [call[c] EXCEPT !.response = stamped,
                                 !.assistantContent = <<>>,
                                 !.toolResults = <<>>,
                                 !.finalText = ""]
           r == RunFrom(l0, messages, 1)
       IN  /\ call' = [call EXCEPT ![c] = r.l]
           /\ messages' = Recorded(r.msgs, FALSE)
           /\ batch' = BatchFor(r.l, page)
    /\ UNCHANGED <<config, state, browser, page>>

\* the executeComputer call that the agent awaits has settled: the try or
\* the catch branch runs, and the call goes on to its next await
ComputerReturns(c) ==
    /\ call[c].pc = "tool"
    /\ batch.pc \in {"resolved", "rejected"}
    /\ LET b == call[c].response.content[call[c].block]
           h == IF batch.pc = "resolved"
                THEN OnToolSuccess(call[c], state, b, batch.result)
                ELSE OnToolFailure(call[c], state, b, MessageOf(batch.result.error))
           r == IF h.l.pc = "tool"
                THEN RunFrom(h.l, messages, call[c].block + 1)
                ELSE [l |-> h.l, msgs |-> messages]
       IN  /\ call' = [call EXCEPT ![c] = r.l]
           /\ state' = h.st
           /\ messages' = Recorded(r.msgs, FALSE)
           /\ batch' = BatchFor(r.l, page)
    /\ UNCHANGED <<config, browser, page>>

NextBatchTask ==
    \/ \E response \in BatchResponses : ModelCallsComputer(1, response)
    \/ ActionSettles
    \/ ScreenshotSettles
    \/ ComputerReturns(1)

SpecBatchTask == InitBatchTask /\ [][NextBatchTask]_vars

\* the page as the first `done` actions of the batch left it
AfterDone == AppliedInOrder(batch.before, batch.input.tab_id, SubSeq(batch.actions, 1, batch.done))

\* the tool_result, the history entry and the count of one failed call
FailedOnce(c) ==
    LET b == call[c].response.content[call[c].block]
    IN  /\ Len(call'[c].toolResults) = Len(call[c].toolResults) + 1
        /\ SubSeq(call'[c].toolResults, 1, Len(call[c].toolResults)) = call[c].toolResults
        /\ LET answer == call'[c].toolResults[Len(call'[c].toolResults)]
           IN  /\ answer.type = "tool_result"
               /\ answer.tool_use_id = b.id
               /\ answer.content.form = "string"
               /\ Head(answer.content.text) = "Error: "
        /\ Len(state'.action_history) = Len(state.action_history) + 1
        /\ SubSeq(state'.action_history, 1, Len(state.action_history)) = state.action_history
        /\ LET entry == state'.action_history[Len(state'.action_history)]
           IN  /\ "error" \in DOMAIN entry
               /\ "output" \notin DOMAIN entry
               /\ entry.tool = "computer"
        /\ state'.error_count = state.error_count + 1

\* C33: when action k of a batched computer call fails, the actions after
\* it are never executed (the batch stays at k-1 actions done and the page
\* gets no further input), the effects of actions 1..k-1 stay on the page,
\* and the agent counts the whole call as one failure: one error
\* tool_result, one history entry with an error field, error_count + 1;
\* while the batch runs the agent's state is not touched.
C33_BatchFailsOnce ==
    [][/\ batch.pc = "rejected" =>
            /\ FailedOnce(1)
            /\ page' = page
            /\ batch.done <= Len(batch.actions)
            /\ SubSeq(page.events, 1, Len(AfterDone.events)) = AfterDone.events
            /\ page.value = AfterDone.value
            /\ page.focus = AfterDone.focus
            /\ batch.done < Len(batch.actions) =>
                  LET o == executeAction(browser, AfterDone, batch.input.tab_id, batch.actions[batch.done + 1])
                  IN  /\ ~o.ok
                      /\ page = IF "page" \in DOMAIN o THEN o.page ELSE AfterDone
       /\ (batch.pc \in {"acting", "shooting"}) => (state' = state /\ call' = call /\ messages' = messages)
       /\ (/\ batch.pc = "acting"
           /\ ~executeAction(browser, page, batch.input.tab_id, batch.actions[batch.done + 1]).ok) =>
              (batch'.pc = "rejected" /\ batch'.done = batch.done /\ batch'.actions = batch.actions)
      ]_vars

\* the second of three actions failed after the first had typed its text:
\* the call was answered with one error, and the turn went on
C33_Witness ==
    /\ call[1].pc \in {"chat", "done"}
    /\ Len(call[1].toolResults) = 1
    /\ call[1].toolResults[1].content.form = "string"
    /\ Len(call[1].response.content[1].input.actions) = 3
    /\ state.error_count >= 1
    /\ "error" \in DOMAIN state.action_history[Len(state.action_history)]
    /\ Len(page.events) = 1
    /\ page.events[1].op = "type"

\* C34: every model invocation made by executeTask receives a conversation
\* whose first and last messages have role user and in which user and
\* assistant messages strictly alternate, whatever the model answers.
C34_ConversationAlternates ==
    \A c \in CallIds :
        call[c].pc = "chat" =>
            /\ messages # <<>>
            /\ messages[1].role = "user"
            /\ messages[Len(messages)].role = "user"
            /\ \A k \in 1..(Len(messages) - 1) : messages[k].role # messages[k + 1].role

\* ------------------------------------------------ overlapping executeTask
\* executeTask is async: a second call can be made on the same agent while
\* the first is suspended at llm.chat or toolExecutor.execute.  Call 1 is
\* given taskA and call 2 taskB; each is made once.
TaskOf(c) == IF c = 1 THEN "taskA" ELSE "taskB"

\* the replies of the model service explored for overlapping calls
OverlapResponses ==
    { ChatResponse(<<ToolUseBlock("computer")>>, "tool_use"),
      ChatResponse(<<TextBlock("a")>>, "end_turn") }

CallStarts(c) ==
    /\ call[c].pc = "idle"
    /\ StartTask(c, TaskOf(c))

ModelRepliesTo(c) == \E response \in OverlapResponses : ChatReturns(c, response, FALSE)

NextOverlap ==
    \/ \E c \in CallIds : CallStarts(c)
    \/ \E c \in CallIds : ModelRepliesTo(c)
    \/ \E c \in CallIds : ChatFails(c)
    \/ \E c \in CallIds : ToolReturns(c, FALSE)

SpecOverlap == Init /\ [][NextOverlap]_vars

\* call c is suspended inside executeTask
Suspended(c) == call[c].pc \in {"chat", "tool"}

\* the step is one of call c
StepOf(c) == call'[c] # call[c]

\* C35: two executeTask calls that overlap on one agent do not interfere:
\* the conversation a call hands to the model starts with that call's own
\* task description, and while a call is suspended no step of the other
\* call changes the consecutive-error count.
C35_NoInterference ==
    [][\A c \in CallIds :
          /\ (StepOf(c) /\ call'[c].pc = "chat") =>
                messages'[1] = [role |-> "user", content |-> call'[c].task]
          /\ \A d \in CallIds \ {c} :
                (Suspended(c) /\ StepOf(d)) => state'.error_count = state.error_count
      ]_vars

\* C36: a createTab call that fails (browser not initialized, or the
\* navigation of the new page fails) leaves the session unchanged: the tab
\* map holds the same tabs as before, no tab id is consumed, and
\* getTabsContext lists the same tabs.
C36_FailedCreateLeavesSession ==
    [][(browser'.last.op = "createTab" /\ ~browser'.last.ok /\ browser' # browser) =>
          /\ browser'.pages = browser.pages
          /\ browser'.nextTabId = browser.nextTabId
          /\ Listed(browser') = Listed(browser)
      ]_vars

\* C37: a double_click action delivers a click with click count 2 and a
\* right_click action a click with the right button, whether the target is
\* addressed by coordinate or by ref.
C37_ClickKindHonoured ==
    [][(/\ batch.pc = "acting"
        /\ batch'.pc # "rejected"
        /\ ActionRunning.action \in {"double_click", "right_click"}
        /\ (ActionRunning.ref # NoRef \/ ActionRunning.coordinate # NoCoordinate))
          => /\ NewEvents # <<>>
             /\ LET sent == NewEvents[Len(NewEvents)]
                IN  /\ sent.op = "click"
                    /\ sent.clickCount = IF ActionRunning.action = "double_click" THEN 2 ELSE 1
                    /\ sent.button = IF ActionRunning.action = "right_click" THEN "right" ELSE "left"
      ]_vars

\* C38: a scroll_to action only brings the referenced element into view:
\* it sends no mouse click and no other input event to the page, and so
\* leaves the focus and the values of the page as they are.
C38_ScrollToSendsNoInput ==
    [][(batch.pc = "acting" /\ ActionRunning.action = "scroll_to")
          => /\ NewEvents = <<>>
             /\ page'.focus = page.focus
             /\ page'.value = page.value
      ]_vars

\* the events of one kind for one key among the events
EventsOf(events, op, key) ==
    Cardinality({k \in 1..Len(events) : events[k].op = op /\ events[k].key = key})

\* C39: after pressKey returns or fails no modifier key is left held down:
\* every modifier for which a key-down was issued has received its key-up,
\* even when pressing the main key fails.
C39_NoModifierLeftDown ==
    [][browser'.last.op = "pressKey" =>
          \A m \in {"Meta", "Control", "Alt", "Shift"} :
              EventsOf(NewEvents, "keydown", m) = EventsOf(NewEvents, "keyup", m)
      ]_vars

====
